---------------------------- MODULE Spec2Model ----------------------------
(***************************************************************************)
(* Permit ingestion pipeline of austin-mf-intelligence: the two city       *)
(* pipelines (City A = Austin, src/pipeline.py; City B = San Antonio,      *)
(* src/pipeline_sanantonio.py).                                            *)
(*                                                                         *)
(* Specifications:                                                         *)
(*   Spec       the Run Orchestrator (run_pipeline) over the Raw Store,    *)
(*              the enriched table and the audit log; one behaviour is a   *)
(*              sequence of backfill / incremental runs of one city.       *)
(*   SpecFetch  the Source Adapter alone (fetch_all and the page requests  *)
(*              under it), one page request attempt per step.              *)
(*   SpecTables the tables between the runs: batch commits into the Raw    *)
(*              Store, the enrichment statement, loads of the submarket    *)
(*              boundaries and of the ZIP crosswalk.                       *)
(*   SpecViews  co_projects and submarket_deliveries read over contents of *)
(*              the enriched table.                                        *)
(*   SpecUnits  the unit estimate parse_record of City B makes of an area. *)
(*   SpecParse  parse_record over the fetched records, one record a step.  *)
(*   SpecFetchLive, SpecLive: SpecFetch and Spec with weak fairness of the *)
(*              steps of the fetch and of a started run.                   *)
(*                                                                         *)
(* Modelling conventions                                                   *)
(*   - a date is a day number; 0 stands for None / NULL / unparseable.     *)
(*   - a table is the set of its rows; uniqueness of permit_num is NOT     *)
(*     built in, it has to come out of the upsert statements.              *)
(*   - a database transaction is atomic: a write that raises leaves the    *)
(*     tables as they were and leaves the connection unusable (psycopg2:   *)
(*     either the connection is lost, or the transaction is aborted and    *)
(*     every later statement on it raises until a rollback, which the      *)
(*     code never issues).                                                 *)
(*   - the upstream data is the result set of the server-side permit       *)
(*     class / permit type filter, and does not change during a behaviour. *)
(***************************************************************************)
EXTENDS Integers, Sequences, FiniteSets, TLC

\* ------------------------------------------------------------------ bounds
MaxUpstream == 2       \* records held upstream (both resources together)
MaxRuns == 2           \* runs of run_pipeline in one behaviour
PageSize == 1          \* PAGE_SIZE, scaled down (1000 / 100 in the source)
BatchCommitSize == 1   \* BATCH_COMMIT_SIZE, scaled down (500 / 200)
DaysPerQuarter == 2    \* days of a calendar quarter, scaled down
MaxRows == 3           \* rows of co_permits the views are read over
MaxAreaStep == 130     \* areas tried: the multiples of 50 sq ft up to 50 * MaxAreaStep
MaxParse == 2          \* records handed to the parse of one run

\* ------------------------------------------------------- program constants
MaxAttempts == 5       \* for _attempt in range(5)
BackoffSecs == 10      \* sleep(10 * (attempt + 1))
AVG_UNIT_SF == 900
MIN_UNITS == 5
MAX_UNITS == 2000

None == 0              \* Python None / SQL NULL for dates and counters
NULL == "NULL"         \* Python None / SQL NULL for text and coordinates

Cities == {"A", "B"}
PermitNums == {"P1", "P2"}
Dates == {1, 2}

Min(a, b) == IF a < b THEN a ELSE b
Max(a, b) == IF a > b THEN a ELSE b

\* ----------------------------------------------------------- upstream data
\* A raw source record, reduced to the fields the orchestrator depends on.
\*   num        permit_number (A) / "PERMIT #" (B); "" when missing or blank
\*   issued     issue_date (A) / "DATE ISSUED" (B); None when absent
\*   submitted  "DATE SUBMITTED" (B only); None when absent
\*   qty        housing_units (A) / "AREA (SF)" (B)
\*   status     status_current (A) / STATUS (B)
\*   master     masterpermitnum (A); "" when absent
\*   addr       permit_location (A) / ADDRESS (B)
\*   zip        original_zip (A); "" when absent
\*   x, y       longitude, latitude (A) / X_COORD, Y_COORD (B), each a
\*              source field (below), in tenths of a degree
\*   loc        location (A, a dict of latitude and longitude) / LOCATION
\*              (B, a text holding two decimal numbers)
\*   work       work_class (A) / "WORK TYPE" (B)
\*   name       description (A) / "PROJECT NAME" (B)
\* A source field read as a number: absent (the key is missing), a number
\* (text float() reads), or text float() raises ValueError on.
NoField == [kind |-> "absent", v |-> None]

Num(v) == [kind |-> "num", v |-> v]

BadText == [kind |-> "bad", v |-> None]

\* The location field: absent, or holding the two fields x and y.
NoLocation == [present |-> FALSE, x |-> NoField, y |-> NoField]

Location(x, y) == [present |-> TRUE, x |-> x, y |-> y]

\* Src gives the record of a plain permit: no master permit, an address
\* without ZIP code, no coordinates, new construction.
Src(num, issued, submitted, qty, status) ==
    [num |-> num, issued |-> issued, submitted |-> submitted,
     qty |-> qty, status |-> status,
     master |-> "", addr |-> "100 MAIN ST", zip |-> "",
     x |-> NoField, y |-> NoField, loc |-> NoLocation,
     work |-> "New", name |-> "Oak Flats"]

\* The record with the coordinates of a place put in its coordinate fields.
At(r, lonlat) == [r EXCEPT !.x = Num(lonlat[1]), !.y = Num(lonlat[2])]

\* <<longitude, latitude>> of two places of the metro, in tenths of a degree.
Q1 == <<-977, 303>>

Q2 == <<-978, 302>>

SrcRecsA ==
    {Src(n, 1, None, 5, "Issued") : n \in PermitNums}
    \cup {Src(n, 2, None, 8, "Final") : n \in PermitNums}
    \cup {Src("", 1, None, 5, "Issued"), Src("P1", None, None, 5, "Issued")}

SrcRecsB ==
    {Src(n, 1, 1, 4500, "Open") : n \in PermitNums}
    \cup {Src(n, 2, 1, 7200, "Closed") : n \in PermitNums}
    \cup {Src("", 1, 1, 4500, "Open"), Src("P1", None, 2, 4500, "Open"),
          Src("P2", 1, 1, 0, "Open")}

\* The source records a city's upstream is made of, as the Source Adapter
\* sees them.
SrcRecs(c) == IF c = "A" THEN SrcRecsA ELSE SrcRecsB

\* The source records of the runs of the orchestrator: the same, less the
\* records that differ from another one only in a way the adapter alone
\* looks at (a blank number), and with one record of the second permit.
RunRecs(c) ==
    {r \in SrcRecs(c) : r.num # "" /\ (r.num = "P2" => r.issued = 1)}

SeqsUpTo(S, n) == UNION {[1..k -> S] : k \in 0..n}

\* The upstreams made of the records of S: the current resource and the
\* historical resource (City A has a single endpoint; its second resource is
\* always empty).
UpstreamsOver(c, S) ==
    IF c = "A"
    THEN {<<s, <<>>>> : s \in SeqsUpTo(S, MaxUpstream)}
    ELSE {u \in SeqsUpTo(S, MaxUpstream) \X SeqsUpTo(S, MaxUpstream) :
             Len(u[1]) + Len(u[2]) <= MaxUpstream}

\* ------------------------------------------------------- Record Normalizer
\* round(area_sf / AVG_UNIT_SF): Python 3 rounds halves to the even integer.
PyRoundDiv(a, b) ==
    LET q == a \div b
        r == a % b
    IN  IF 2 * r < b THEN q
        ELSE IF 2 * r > b THEN q + 1
        ELSE IF q % 2 = 0 THEN q ELSE q + 1

estimate_units_Ceil(area_sf) ==
    IF area_sf <= 0 THEN 0
    ELSE Min(Max(MIN_UNITS, (area_sf + AVG_UNIT_SF - 1) \div AVG_UNIT_SF), MAX_UNITS)

estimate_units(area_sf) ==
    IF area_sf <= 0 THEN 0
    ELSE Min(Max(MIN_UNITS, PyRoundDiv(area_sf, AVG_UNIT_SF)), MAX_UNITS)

\* str.upper() on the work classes of the source data.
Upper(s) ==
    CASE s = "New" -> "NEW"
      [] s = "Remodel" -> "REMODEL"
      [] OTHER -> s

\* `x or None` on a stripped string.
OrNone(s) == IF s = "" THEN NULL ELSE s

\* _extract_zip(address) of City B: the first Texas ZIP code in the address.
extract_zip(address) ==
    CASE address = "200 OAK AVE 78701" -> "78701"
      [] address = "300 ELM ST 78702" -> "78702"
      [] OTHER -> NULL

\* ST_SetSRID(ST_MakePoint(longitude, latitude), 4326), NULL when either is
\* NULL: the place the coordinates denote, by its name in the geometries of
\* costar_submarkets.
MakePoint(longitude, latitude) ==
    IF latitude = None \/ longitude = None THEN NULL
    ELSE CASE <<longitude, latitude>> = Q1 -> "q1"
           [] <<longitude, latitude>> = Q2 -> "q2"
           [] OTHER -> "elsewhere"

\* The coordinates of parse_record of City A.  float() of text that is no
\* number raises ValueError, which the inner handler swallows with what was
\* assigned so far; r["longitude"] of a record with latitude and no
\* longitude raises KeyError, which only the outer handler catches.
Coordinates_A(r) ==
    IF r.y.kind # "absent"
    THEN IF r.y.kind = "bad"
         THEN [raised |-> FALSE, latitude |-> None, longitude |-> None]
         ELSE IF r.x.kind = "absent"
         THEN [raised |-> TRUE, latitude |-> r.y.v, longitude |-> None]
         ELSE IF r.x.kind = "bad"
         THEN [raised |-> FALSE, latitude |-> r.y.v, longitude |-> None]
         ELSE [raised |-> FALSE, latitude |-> r.y.v, longitude |-> r.x.v]
    ELSE IF r.loc.present
    THEN IF r.loc.y.kind = "bad"
         THEN [raised |-> FALSE, latitude |-> None, longitude |-> None]
         ELSE IF r.loc.x.kind = "bad"
         THEN [raised |-> FALSE, latitude |-> r.loc.y.v, longitude |-> None]
         ELSE [raised |-> FALSE, latitude |-> r.loc.y.v, longitude |-> r.loc.x.v]
    ELSE [raised |-> FALSE, latitude |-> None, longitude |-> None]

\* _safe_float(val): None for a missing value, for text that is no number
\* and for 0.
safe_float(f) == IF f.kind = "num" THEN f.v ELSE None

\* -100.0 < lon < -97.0 and 28.0 < lat < 30.5, in tenths of a degree.
InRange_B(lon, lat) == -1000 < lon /\ lon < -970 /\ 280 < lat /\ lat < 305

\* The coordinates of parse_record of City B: X_COORD and Y_COORD, then
\* LOCATION when they gave no latitude.  The branch for swapped X_COORD and
\* Y_COORD assigns `lat, lon = y, x`, the branch for a swapped LOCATION
\* `lat, lon = a, b`.
Coordinates_B(r) ==
    LET x == safe_float(r.x)
        y == safe_float(r.y)
        a == r.loc.x.v
        b == r.loc.y.v
        fromXY ==
            IF x # None /\ y # None
            THEN IF InRange_B(x, y) THEN [latitude |-> y, longitude |-> x]
                 ELSE IF InRange_B(y, x) THEN [latitude |-> y, longitude |-> x]
                 ELSE [latitude |-> None, longitude |-> None]
            ELSE [latitude |-> None, longitude |-> None]
        fromLocation ==
            IF r.loc.present
            THEN IF InRange_B(a, b) THEN [latitude |-> b, longitude |-> a]
                 ELSE IF InRange_B(b, a) THEN [latitude |-> a, longitude |-> b]
                 ELSE fromXY
            ELSE fromXY
    IN  IF fromXY.latitude = None THEN fromLocation ELSE fromXY

\* The normalized record (the dict parse_record returns), less the columns
\* no property reads: permit_class, permit_type, area_sf, cd, raw_json; and
\* the point of its coordinates.
Permit(num, issue_date, submitted_date, total_units, permit_status, rest) ==
    [permit_num |-> num, issue_date |-> issue_date,
     submitted_date |-> submitted_date, total_units |-> total_units,
     permit_status |-> permit_status,
     masterpermitnum |-> rest.masterpermitnum, address |-> rest.address,
     zip_code |-> rest.zip_code,
     latitude |-> rest.latitude, longitude |-> rest.longitude,
     point |-> MakePoint(rest.longitude, rest.latitude),
     work_class |-> rest.work_class, project_name |-> rest.project_name]

\* parse_record of City A: rejects a blank permit number and a missing issue
\* date; housing_units is taken as it is; an exception the coordinates
\* raise past their own handler is caught by `except Exception`, which
\* returns None.
parse_record_A(r) ==
    IF r.num = "" THEN <<>>
    ELSE IF r.issued = None THEN <<>>
    ELSE IF Coordinates_A(r).raised THEN <<>>
    ELSE <<Permit(r.num, r.issued, None, r.qty, r.status,
                  [masterpermitnum |-> OrNone(r.master), address |-> r.addr,
                   zip_code |-> OrNone(r.zip),
                   latitude |-> Coordinates_A(r).latitude,
                   longitude |-> Coordinates_A(r).longitude,
                   work_class |-> Upper(r.work), project_name |-> r.name])>>

\* Faulty variant: the issue date is stored as it was read.
parse_record_B_NoFallback(r) ==
    IF r.num = "" THEN <<>>
    ELSE IF r.issued = None /\ r.submitted = None THEN <<>>
    ELSE IF estimate_units(r.qty) < MIN_UNITS THEN <<>>
    ELSE <<Permit(r.num, r.issued,
                  r.submitted, estimate_units(r.qty), r.status,
                  [masterpermitnum |-> NULL, address |-> r.addr,
                   zip_code |-> extract_zip(r.addr),
                   latitude |-> Coordinates_B(r).latitude,
                   longitude |-> Coordinates_B(r).longitude,
                   work_class |-> Upper(r.work), project_name |-> r.name])>>

\* parse_record of City B: rejects a blank permit number, a record with
\* neither date, and an estimate below MIN_UNITS; the submitted date stands
\* in for a missing issue date.
parse_record_B(r) ==
    IF r.num = "" THEN <<>>
    ELSE IF r.issued = None /\ r.submitted = None THEN <<>>
    ELSE IF estimate_units(r.qty) < MIN_UNITS THEN <<>>
    ELSE <<Permit(r.num, IF r.issued # None THEN r.issued ELSE r.submitted,
                  r.submitted, estimate_units(r.qty), r.status,
                  [masterpermitnum |-> NULL, address |-> r.addr,
                   zip_code |-> extract_zip(r.addr),
                   latitude |-> Coordinates_B(r).latitude,
                   longitude |-> Coordinates_B(r).longitude,
                   work_class |-> Upper(r.work), project_name |-> r.name])>>

\* parse_record: the empty sequence is the rejection (None), else <<permit>>.
parse_record(c, r) == IF c = "A" THEN parse_record_A(r) ELSE parse_record_B(r)

RECURSIVE ParseAll(_, _)
\* parsed = [p for r in raw if (p := parse_record(r))]
ParseAll(c, raw) ==
    IF raw = <<>> THEN <<>>
    ELSE parse_record(c, Head(raw)) \o ParseAll(c, Tail(raw))

\* Every normalized permit the source records of a city can give.
PermitsA == {parse_record_A(r)[1] : r \in {x \in SrcRecsA : parse_record_A(x) # <<>>}}

PermitsB == {parse_record_B(r)[1] : r \in {x \in SrcRecsB : parse_record_B(x) # <<>>}}

Permits(c) == IF c = "A" THEN PermitsA ELSE PermitsB

\* --------------------------------------------------------------- Raw Store
RowsOf(table, num) == {x \in table : x.permit_num = num}

\* Faulty variant: a plain INSERT, no ON CONFLICT clause.
UPSERT_RAW_SQL_PlainInsert(c, table, p) ==
    [table |-> table \cup {p}, inserted |-> TRUE]

\* Faulty variant: ON CONFLICT (permit_num) DO NOTHING.
UPSERT_RAW_SQL_DoNothing(c, table, p) ==
    [table |-> IF RowsOf(table, p.permit_num) = {} THEN table \cup {p} ELSE table,
     inserted |-> (RowsOf(table, p.permit_num) = {})]

\* UPSERT_RAW_SQL: INSERT ... ON CONFLICT (permit_num) DO UPDATE SET the
\* columns of the SET list ... RETURNING (xmax = 0) AS inserted.  Neither
\* city's SET list has project_name; City B's has no work_class either.
UPSERT_RAW_SQL(c, table, p) ==
    LET old == RowsOf(table, p.permit_num)
    IN  [table |-> IF old = {} THEN table \cup {p}
                   ELSE (table \ old) \cup
                        {[x EXCEPT !.masterpermitnum = p.masterpermitnum,
                                   !.issue_date = p.issue_date,
                                   !.submitted_date = p.submitted_date,
                                   !.address = p.address,
                                   !.zip_code = p.zip_code,
                                   !.latitude = p.latitude,
                                   !.longitude = p.longitude,
                                   !.point = p.point,
                                   !.total_units = p.total_units,
                                   !.work_class = IF c = "A" THEN p.work_class
                                                  ELSE x.work_class,
                                   !.permit_status = p.permit_status] : x \in old},
         inserted |-> (old = {})]

RECURSIVE upsert_raw(_, _, _)
\* upsert_raw(conn, records): one transaction over the chunk; gives the table
\* after the commit and new_count.
upsert_raw(c, table, records) ==
    IF records = <<>> THEN [table |-> table, new_count |-> 0]
    ELSE LET one == UPSERT_RAW_SQL(c, table, Head(records))
             rest == upsert_raw(c, one.table, Tail(records))
         IN  [table |-> rest.table,
              new_count |-> rest.new_count + (IF one.inserted THEN 1 ELSE 0)]

SetMax(S) == CHOOSE m \in S : \A x \in S : x <= m

\* SELECT MAX(issue_date) FROM co_permits_raw WHERE issue_date IS NOT NULL
last_ingested_date(table) ==
    LET ds == {x.issue_date : x \in {y \in table : y.issue_date # None}}
    IN  IF ds = {} THEN None ELSE SetMax(ds)

\* -------------------------------------------------------------- enrichment
\* A row of costar_submarkets is [submarket_id, submarket_name, geom]: geom is
\* the set of the points the multipolygon contains, the empty set for a NULL
\* geometry (neither contains a point).  A row of zip_submarket_crosswalk
\* is [zip_code, submarket_name]; zip_code is the primary key.

\* SUBSTRING(r.address FROM '([0-9]{5})(?:[- ][0-9]{4})?$'): the ZIP code
\* that ends the address (City B: that a blank or the end follows).
zip_from_address(address) ==
    CASE address = "200 OAK AVE 78701" -> "78701"
      [] address = "300 ELM ST 78702" -> "78702"
      [] OTHER -> NULL

\* LEFT JOIN costar_submarkets s ON s.geom IS NOT NULL AND r.latitude IS NOT
\* NULL AND ST_Contains(s.geom, point of r): the submarket rows joined to r.
JoinSubmarkets(r, submarkets) ==
    {s \in submarkets : s.geom # {} /\ r.point # NULL /\ r.point \in s.geom}

\* The submarket columns of a row the left join found no submarket for.
NoSubmarket == [submarket_id |-> NULL, submarket_name |-> NULL, geom |-> {}]

\* LEFT JOIN zip_submarket_crosswalk z ON z.zip_code = COALESCE(r.zip_code,
\* SUBSTRING(r.address ...)): z.submarket_name, NULL when no row joins.
JoinCrosswalk(r, crosswalk) ==
    LET zip == IF r.zip_code # NULL THEN r.zip_code ELSE zip_from_address(r.address)
        zs == {z \in crosswalk : z.zip_code = zip}
    IN  IF zs = {} THEN NULL ELSE (CHOOSE z \in zs : TRUE).submarket_name

\* The generated columns delivery_year and delivery_quarter of co_permits
\* (delivery_yyyyq is the two put together): EXTRACT(YEAR / QUARTER FROM
\* issue_date), on the day numbers of the model.
delivery_yyyyq(issue_date) ==
    [year |-> (issue_date - 1) \div (4 * DaysPerQuarter),
     quarter |-> (((issue_date - 1) \div DaysPerQuarter) % 4) + 1]

\* One row of the SELECT of ENRICH_SQL: raw row r joined to submarket row s
\* (NoSubmarket: the left join found none).
EnrichSelectRow(r, s, crosswalk) ==
    [permit_num |-> r.permit_num, masterpermitnum |-> r.masterpermitnum,
     issue_date |-> r.issue_date, submitted_date |-> r.submitted_date,
     address |-> r.address, zip_code |-> r.zip_code, point |-> r.point,
     geom |-> r.point, total_units |-> r.total_units,
     project_name |-> r.project_name, work_class |-> r.work_class,
     submarket_id |-> s.submarket_id,
     submarket_name |-> IF s.submarket_name # NULL THEN s.submarket_name
                        ELSE JoinCrosswalk(r, crosswalk),
     delivery_yyyyq |-> delivery_yyyyq(r.issue_date)]

\* The rows the SELECT of ENRICH_SQL gives: one per raw row with an issue
\* date (City B: and at least 5 units) and per submarket row joined to it,
\* one with no submarket when none joins.
EnrichSelect(c, rawTable, submarkets, crosswalk) ==
    UNION {IF JoinSubmarkets(r, submarkets) = {}
           THEN {EnrichSelectRow(r, NoSubmarket, crosswalk)}
           ELSE {EnrichSelectRow(r, s, crosswalk) : s \in JoinSubmarkets(r, submarkets)}
           : r \in {x \in rawTable : x.issue_date # None
                                     /\ (c = "B" => x.total_units >= 5)}}

\* ON CONFLICT (permit_num) DO UPDATE SET ...: the row old after the update
\* by the proposed row new.  Neither city's SET list has address or
\* project_name; City B's has no work_class either.
EnrichUpdate(c, old, new) ==
    [new EXCEPT !.address = old.address,
                !.project_name = old.project_name,
                !.work_class = IF c = "A" THEN new.work_class ELSE old.work_class]

\* ENRICH_SQL: INSERT INTO co_permits SELECT ... ON CONFLICT (permit_num) DO
\* UPDATE.  Two proposed rows with one permit_num make the statement raise
\* (ON CONFLICT DO UPDATE command cannot affect row a second time) and
\* nothing is written; rowcount is the number of rows inserted or updated.
ENRICH_SQL(c, rawTable, enrTable, submarkets, crosswalk) ==
    LET sel == EnrichSelect(c, rawTable, submarkets, crosswalk)
        nums == {x.permit_num : x \in sel}
    IN  IF \E x, y \in sel : x # y /\ x.permit_num = y.permit_num
        THEN [table |-> enrTable, rowcount |-> 0, raised |-> TRUE]
        ELSE [table |-> {e \in enrTable : e.permit_num \notin nums}
                        \cup {IF RowsOf(enrTable, x.permit_num) = {} THEN x
                              ELSE EnrichUpdate(c, CHOOSE e \in RowsOf(enrTable, x.permit_num) : TRUE, x)
                              : x \in sel},
              rowcount |-> Cardinality(sel), raised |-> FALSE]

\* ------------------------------------------------------------------- views
\* Faulty variant: the bounds of the unit range are left out of the range.
ProjectFilter_Exclusive(c, e) ==
    IF c = "A"
    THEN e.work_class = "NEW" /\ e.total_units > 5 /\ e.total_units < 1000
    ELSE e.total_units > 5 /\ e.total_units < 2000

\* WHERE clause of co_projects: City A work_class = 'NEW' AND total_units
\* BETWEEN 5 AND 1000; City B total_units >= 5 AND total_units <= 2000.
ProjectFilter(c, e) ==
    IF c = "A"
    THEN e.work_class = "NEW" /\ e.total_units >= 5 /\ e.total_units <= 1000
    ELSE e.total_units >= 5 /\ e.total_units <= 2000

\* DISTINCT ON (...): City A COALESCE(masterpermitnum, permit_num), City B
\* (address, total_units).
DedupKey(c, e) ==
    IF c = "A"
    THEN <<IF e.masterpermitnum # NULL THEN e.masterpermitnum ELSE e.permit_num>>
    ELSE <<e.address, e.total_units>>

\* The select list of co_projects: the columns of co_permits but geom.
ProjectRow(e) ==
    [permit_num |-> e.permit_num, masterpermitnum |-> e.masterpermitnum,
     issue_date |-> e.issue_date, submitted_date |-> e.submitted_date,
     address |-> e.address, zip_code |-> e.zip_code, point |-> e.point,
     total_units |-> e.total_units, project_name |-> e.project_name,
     work_class |-> e.work_class, submarket_id |-> e.submarket_id,
     submarket_name |-> e.submarket_name, delivery_yyyyq |-> e.delivery_yyyyq]

\* Faulty variant: ORDER BY <key>, issue_date (ascending).
FirstOfKey_Ascending(c, rows, k) ==
    {e \in rows : /\ DedupKey(c, e) = k
                  /\ \A x \in rows : DedupKey(c, x) = k => x.issue_date >= e.issue_date}

\* ORDER BY <key>, issue_date DESC: the rows that can come first in the
\* group of key k.  The ORDER BY names no further column, so among rows
\* with the key and the latest issue date the first one is any of them.
FirstOfKey(c, rows, k) ==
    {e \in rows : /\ DedupKey(c, e) = k
                  /\ \A x \in rows : DedupKey(c, x) = k => x.issue_date <= e.issue_date}

\* The view co_projects over a content of co_permits: the results an
\* evaluation can give, each a set of rows, one per key.
co_projects(c, table) ==
    LET rows == {e \in table : ProjectFilter(c, e)}
        keys == {DedupKey(c, e) : e \in rows}
    IN  {{ProjectRow(f[k]) : k \in keys} :
            f \in {g \in [keys -> rows] : \A k \in keys : g[k] \in FirstOfKey(c, rows, k)}}

\* Faulty variant: GROUP BY submarket_name, without the COALESCE.
SubmarketOrUnknown_NoCoalesce(p) == p.submarket_name

\* COALESCE(submarket_name, 'Unknown')
SubmarketOrUnknown(p) ==
    IF p.submarket_name = NULL THEN "Unknown" ELSE p.submarket_name

RECURSIVE GroupBy(_, _)
\* GROUP BY COALESCE(submarket_name, 'Unknown'), delivery_year,
\* delivery_quarter, delivery_yyyyq with COUNT(*) and SUM(total_units): the
\* rows are taken one at a time, each added to the group of its columns.
GroupBy(rows, groups) ==
    IF rows = {} THEN groups
    ELSE LET p == CHOOSE x \in rows : TRUE
             mine == {g \in groups : /\ g.submarket_name = SubmarketOrUnknown(p)
                                      /\ g.delivery_yyyyq = p.delivery_yyyyq}
         IN  GroupBy(rows \ {p},
                 IF mine = {}
                 THEN groups \cup {[submarket_name |-> SubmarketOrUnknown(p),
                                    delivery_yyyyq |-> p.delivery_yyyyq,
                                    project_count |-> 1,
                                    total_units_delivered |-> p.total_units]}
                 ELSE (groups \ mine) \cup
                      {[g EXCEPT !.project_count = @ + 1,
                                 !.total_units_delivered = @ + p.total_units] : g \in mine})

\* The view submarket_deliveries over one evaluation of co_projects:
\* FROM co_projects WHERE total_units >= 5 GROUP BY ...
submarket_deliveries(projs) ==
    GroupBy({p \in projs : p.total_units >= 5}, {})

\* ---------------------------------------------------------- Source Adapter
\* Faulty variant: the server returns one record more than the limit.
PageAt_OneMore(result, offset) ==
    SubSeq(result, offset + 1, Min(offset + PageSize + 1, Len(result)))

\* The page the server returns at an offset of a result set.
PageAt(result, offset) ==
    SubSeq(result, offset + 1, Min(offset + PageSize, Len(result)))

\* Austin: $where issue_date > '<since>T00:00:00.000', only when since is given.
SocrataQuery(res, since_date) ==
    IF since_date = None THEN res
    ELSE SelectSeq(res, LAMBDA r : r.issued # None /\ r.issued > since_date)

RECURSIVE Paginate(_, _)
\* The page loop of fetch_all (A) and fetch_ckan_all_pages (B): pages at
\* offsets 0, PAGE_SIZE, ... until an empty or short page.
Paginate(result, offset) ==
    LET batch == PageAt(result, offset)
    IN  IF batch = <<>> THEN <<>>
        ELSE IF Len(batch) < PageSize THEN batch
        ELSE batch \o Paginate(result, offset + PageSize)

fetch_ckan_all_pages(res) == Paginate(res, 0)

\* CKAN SQL: ... AND "DATE ISSUED" > '<since>'
CkanSql(res, since_date) ==
    SelectSeq(res, LAMBDA r : r.issued # None /\ r.issued > since_date)

\* fetch_ckan_since: the SQL endpoint when it answers, else the full
\* pagination of the resource.
fetch_ckan_since(res, since_date, sqlOk) ==
    IF sqlOk THEN CkanSql(res, since_date) ELSE fetch_ckan_all_pages(res)

\* Faulty variant: of the records of one permit number the last is kept.
Dedup_KeepLast(records, seen) ==
    LET keep(j) == /\ records[j].num # ""
                   /\ \A k \in (j + 1)..Len(records) : records[k].num # records[j].num
        upTo[j \in 0..Len(records)] ==
            IF j = 0 THEN <<>>
            ELSE IF keep(j) THEN Append(upTo[j - 1], records[j]) ELSE upTo[j - 1]
    IN  upTo[Len(records)]

RECURSIVE Dedup(_, _)
\* Deduplicate by permit number, first occurrence kept, blank numbers dropped.
Dedup(records, seen) ==
    IF records = <<>> THEN <<>>
    ELSE LET r == Head(records)
         IN  IF r.num # "" /\ r.num \notin seen
             THEN <<r>> \o Dedup(Tail(records), seen \cup {r.num})
             ELSE Dedup(Tail(records), seen)

fetch_all_A(up, since_date) == Paginate(SocrataQuery(up[1], since_date), 0)

fetch_all_B(up, since_date, sqlOk) ==
    Dedup(IF since_date # None
          THEN fetch_ckan_since(up[1], since_date, sqlOk[1])
               \o fetch_ckan_since(up[2], since_date, sqlOk[2])
          ELSE fetch_ckan_all_pages(up[1]) \o fetch_ckan_all_pages(up[2]),
          {})

\* fetch_all(since_date) when no request fails for good; sqlOk says, for each
\* City B resource, whether its SQL endpoint answered.
fetch_all(c, up, since_date, sqlOk) ==
    IF c = "A" THEN fetch_all_A(up, since_date) ELSE fetch_all_B(up, since_date, sqlOk)

\* The unit estimate of one City B record: the area read from the record and
\* the estimate made of it (NotEstimated before parse_record made it), and
\* whether parse_record kept the record.
VARIABLES
    u_area_sf,
    u_total_units,
    u_result

uvars == <<u_area_sf, u_total_units, u_result>>

NotEstimated == -1

UnitsIdle == u_area_sf = 0 /\ u_total_units = NotEstimated /\ u_result = "idle"

\* parsed = [p for r in raw if (p := parse_record(r))], one record a step.
VARIABLES
    n_raw,        \* raw: the source records fetch_all returned
    n_i,          \* the records of raw the comprehension has been through
    n_parsed,     \* the permits gathered so far
    n_out         \* what parse_record returned for each of these records,
                  \* read by the properties only

nvars == <<n_raw, n_i, n_parsed, n_out>>

ParseIdle == n_raw = <<>> /\ n_i = 0 /\ n_parsed = <<>> /\ n_out = <<>>

\* ------------------------------------------------------------------- state
VARIABLES
    city,         \* which pipeline this behaviour runs ("A" or "B")
    upstream,     \* <<current resource, historical resource>> of the remote API
    raw,          \* table co_permits_raw
    enr,          \* table co_permits
    log,          \* table pipeline_log, in insertion order
    pc,           \* position of run_pipeline
    mode,         \* "backfill" or "incremental"
    since,        \* since_date handed to fetch_all
    rawrecs,      \* raw: what fetch_all returned
    parsed,       \* parsed: the normalized permits of this run
    i,            \* offset of the current chunk in parsed
    conn,         \* "ok" or "unusable": the connection held in conn
    fetched,      \* counter fetched
    new_records,  \* counter new_records
    enriched,     \* counter enriched
    errors,       \* errors ("" is None)
    runs,         \* runs started so far
    \* history of the current run, read by the properties only
    connId,       \* number of connections get_conn() has opened in this run
    hist,         \* the upsert_raw calls of this run: chunk offset, connection, outcome
    enrichCalls,  \* calls of enrich_permits in this run
    raw0,         \* co_permits_raw when the run started
    enr0,         \* co_permits when the run started
    log0,         \* pipeline_log when the run started
    errors0       \* errors of the run before this one

VARIABLES
    submarkets,   \* table costar_submarkets
    crosswalk,    \* table zip_submarket_crosswalk
    e_last,       \* the last operation on the tables, when not a step of a run
    stored,       \* the source records stored since enrich_permits last ran
    projects,     \* the rows of the last read of co_projects ("unread": none
                  \* since co_permits last changed)
    projects_prev, \* the rows of the read before it, likewise
    deliveries,   \* the rows of the last read of submarket_deliveries
    del_projects  \* the rows of co_projects that read was computed over

dvars == <<submarkets, crosswalk, e_last, stored, projects, projects_prev,
           deliveries, del_projects>>

ovars == <<city, upstream, raw, enr, log, pc, mode, since, rawrecs, parsed, i,
           conn, fetched, new_records, enriched, errors, runs,
           connId, hist, enrichCalls, raw0, enr0, log0, errors0>>

VARIABLES
    f_since,      \* since_date of this call of fetch_all
    f_pc,         \* "idle", "sql", "page", "returned" or "raised"
    f_res,        \* the resource being read (1 current, 2 historical)
    f_offset,     \* offset of the page being requested
    f_attempt,    \* loop variable of `for attempt in range(5)`
    f_slept,      \* the sleeps made for the page request under way, in seconds
    f_last,       \* outcome of the latest HTTP request
    f_records,    \* records gathered so far, all resources
    f_part,       \* records gathered so far from the resource being paged
    f_sqlOk,      \* per resource, whether the SQL endpoint answered
    f_out         \* what fetch_all returned

fvars == <<f_since, f_pc, f_res, f_offset, f_attempt, f_slept, f_last,
           f_records, f_part, f_sqlOk, f_out>>

NoError == ""
Modes == {"backfill", "incremental"}

\* ZIP_CROSSWALK, the rows cmd_setup loads into zip_submarket_crosswalk.
ZIP_CROSSWALK ==
    {[zip_code |-> "78701", submarket_name |-> "Downtown Austin"],
     [zip_code |-> "78702", submarket_name |-> "East Austin"]}

\* No read of a view since co_permits last changed; a read is <<rows>>.
NoRead == <<>>

\* The database after setup, no run made yet: the schema applied, the
\* crosswalk loaded, no submarket boundary loaded.
RunIdle ==
    /\ raw = {} /\ enr = {} /\ log = <<>>
    /\ pc = "idle"
    /\ mode = "incremental" /\ since = None
    /\ rawrecs = <<>> /\ parsed = <<>> /\ i = 0
    /\ conn = "ok"
    /\ fetched = 0 /\ new_records = 0 /\ enriched = 0
    /\ errors = NoError
    /\ runs = 0
    /\ connId = 0 /\ hist = <<>> /\ enrichCalls = 0
    /\ raw0 = {} /\ enr0 = {} /\ log0 = <<>> /\ errors0 = NoError
    /\ submarkets = {} /\ crosswalk = ZIP_CROSSWALK
    /\ e_last = "setup" /\ stored = {}
    /\ projects = NoRead /\ projects_prev = NoRead
    /\ deliveries = NoRead /\ del_projects = NoRead

\* Faulty variant: the slice loses its upper end, parsed[i:].
Chunk_ToEnd(records, offset) == SubSeq(records, offset + 1, Len(records))

Chunk(records, offset) ==
    SubSeq(records, offset + 1, Min(offset + BatchCommitSize, Len(records)))

\* Faulty variant: the watermark is read from the enriched table co_permits.
SinceFor_FromEnriched(m, table) ==
    IF m = "backfill" THEN None ELSE last_ingested_date(enr)

\* run_pipeline(mode), up to the call of fetch_all: conn = get_conn(), the
\* counters are zeroed, since is None for a backfill and the watermark of the
\* Raw Store otherwise.
SinceFor(m, table) == IF m = "backfill" THEN None ELSE last_ingested_date(table)

Start(m) ==
    /\ pc \in {"idle", "done", "failed"}
    /\ runs < MaxRuns
    /\ runs' = runs + 1
    /\ mode' = m
    /\ conn' = "ok" /\ connId' = 1
    /\ errors' = NoError
    /\ fetched' = 0 /\ new_records' = 0 /\ enriched' = 0
    /\ since' = SinceFor(m, raw)
    /\ rawrecs' = <<>> /\ parsed' = <<>> /\ i' = 0
    /\ hist' = <<>> /\ enrichCalls' = 0
    /\ raw0' = raw /\ enr0' = enr /\ log0' = log /\ errors0' = errors
    /\ pc' = "fetching"
    /\ UNCHANGED <<city, upstream, raw, enr, log>>
    /\ UNCHANGED <<fvars, dvars, uvars, nvars>>

\* fetch_all returns.
FetchOk ==
    /\ pc = "fetching"
    /\ \E sqlOk \in BOOLEAN \X BOOLEAN :
          rawrecs' = fetch_all(city, upstream, since, sqlOk)
    /\ pc' = "parsing"
    /\ UNCHANGED <<city, upstream, raw, enr, log, mode, since, parsed, i, conn,
                   fetched, new_records, enriched, errors, runs, connId, hist,
                   enrichCalls, raw0, enr0, log0, errors0>>
    /\ UNCHANGED <<fvars, dvars, uvars, nvars>>

\* Faulty variant: the fetch error is logged and the run goes on to enrichment.
FetchFail_ThenEnrich ==
    /\ pc = "fetching"
    /\ errors' = "fetch failed"
    /\ pc' = "enriching"
    /\ UNCHANGED <<city, upstream, raw, enr, log, mode, since, rawrecs, parsed, i,
                   conn, fetched, new_records, enriched, runs, connId, hist,
                   enrichCalls, raw0, enr0, log0, errors0>>
    /\ UNCHANGED <<fvars, dvars, uvars, nvars>>

\* fetch_all raises (a page request used up its attempts, or answered with an
\* HTTP error): caught by the except clause of run_pipeline.
FetchFail ==
    /\ pc = "fetching"
    /\ errors' = "fetch failed"
    /\ pc' = "finally"
    /\ UNCHANGED <<city, upstream, raw, enr, log, mode, since, rawrecs, parsed, i,
                   conn, fetched, new_records, enriched, runs, connId, hist,
                   enrichCalls, raw0, enr0, log0, errors0>>
    /\ UNCHANGED <<fvars, dvars, uvars, nvars>>

\* Faulty variant: enrich_permits moved under `if parsed:`.
Parse_EnrichUnderIf ==
    /\ pc = "parsing"
    /\ parsed' = ParseAll(city, rawrecs)
    /\ fetched' = Len(parsed')
    /\ i' = 0
    /\ pc' = IF parsed' # <<>> THEN "storing" ELSE "finally"
    /\ UNCHANGED <<city, upstream, raw, enr, log, mode, since, rawrecs, conn,
                   new_records, enriched, errors, runs, connId, hist,
                   enrichCalls, raw0, enr0, log0, errors0>>
    /\ UNCHANGED <<fvars, dvars, uvars, nvars>>

\* parsed = [...]; fetched = len(parsed); `if parsed:` guards the batch loop.
Parse ==
    /\ pc = "parsing"
    /\ parsed' = ParseAll(city, rawrecs)
    /\ fetched' = Len(parsed')
    /\ i' = 0
    /\ pc' = IF parsed' # <<>> THEN "storing" ELSE "enriching"
    /\ UNCHANGED <<city, upstream, raw, enr, log, mode, since, rawrecs, conn,
                   new_records, enriched, errors, runs, connId, hist,
                   enrichCalls, raw0, enr0, log0, errors0>>
    /\ UNCHANGED <<fvars, dvars, uvars, nvars>>

\* Faulty variant: the loop is left after its first chunk.
AfterCommit_LeaveLoop(offset, records) == "enriching"

\* Where the batch loop goes after the chunk at offset i is committed.
AfterCommit(offset, records) ==
    IF offset + BatchCommitSize < Len(records) THEN "storing" ELSE "enriching"

\* Faulty variant: every record of the chunk is counted as new.
BatchOk_CountsChunk ==
    /\ pc \in {"storing", "retrying"}
    /\ LET res == upsert_raw(city, raw, Chunk(parsed, i))
       IN  /\ raw' = res.table
           /\ new_records' = new_records + Len(Chunk(parsed, i))
    /\ hist' = Append(hist, [k |-> i, conn |-> connId, ok |-> TRUE])
    /\ pc' = AfterCommit(i, parsed)
    /\ i' = i + BatchCommitSize
    /\ UNCHANGED <<city, upstream, enr, log, mode, since, rawrecs, parsed, conn,
                   fetched, enriched, errors, runs, connId, enrichCalls,
                   raw0, enr0, log0, errors0>>
    /\ UNCHANGED <<fvars, dvars, uvars, nvars>>

\* upsert_raw(conn, chunk) commits, at the first attempt or at the retry.
BatchOk ==
    /\ pc \in {"storing", "retrying"}
    /\ LET res == upsert_raw(city, raw, Chunk(parsed, i))
       IN  /\ raw' = res.table
           /\ new_records' = new_records + res.new_count
    /\ hist' = Append(hist, [k |-> i, conn |-> connId, ok |-> TRUE])
    /\ pc' = AfterCommit(i, parsed)
    /\ i' = i + BatchCommitSize
    /\ UNCHANGED <<city, upstream, enr, log, mode, since, rawrecs, parsed, conn,
                   fetched, enriched, errors, runs, connId, enrichCalls,
                   raw0, enr0, log0, errors0>>
    /\ UNCHANGED <<fvars, dvars, uvars, nvars>>

\* The first upsert_raw of a chunk raises: nothing of the chunk is committed,
\* the connection is unusable, the handler goes on to reconnect.
BatchFail ==
    /\ pc = "storing"
    /\ conn' = "unusable"
    /\ hist' = Append(hist, [k |-> i, conn |-> connId, ok |-> FALSE])
    /\ pc' = "reconnecting"
    /\ UNCHANGED <<city, upstream, raw, enr, log, mode, since, rawrecs, parsed, i,
                   fetched, new_records, enriched, errors, runs, connId,
                   enrichCalls, raw0, enr0, log0, errors0>>
    /\ UNCHANGED <<fvars, dvars, uvars, nvars>>

\* Faulty variant: after the reconnect the chunk goes through the try block again.
ReconnectOk_TryAgain ==
    /\ pc = "reconnecting"
    /\ conn' = "ok"
    /\ connId' = connId + 1
    /\ pc' = "storing"
    /\ UNCHANGED <<city, upstream, raw, enr, log, mode, since, rawrecs, parsed, i,
                   fetched, new_records, enriched, errors, runs, hist,
                   enrichCalls, raw0, enr0, log0, errors0>>
    /\ UNCHANGED <<fvars, dvars, uvars, nvars>>

\* conn = get_conn() in the batch handler succeeds.
ReconnectOk ==
    /\ pc = "reconnecting"
    /\ conn' = "ok"
    /\ connId' = connId + 1
    /\ pc' = "retrying"
    /\ UNCHANGED <<city, upstream, raw, enr, log, mode, since, rawrecs, parsed, i,
                   fetched, new_records, enriched, errors, runs, hist,
                   enrichCalls, raw0, enr0, log0, errors0>>
    /\ UNCHANGED <<fvars, dvars, uvars, nvars>>

\* conn = get_conn() raises: conn keeps the old, unusable connection.
ReconnectFail ==
    /\ pc = "reconnecting"
    /\ errors' = "could not connect"
    /\ pc' = "finally"
    /\ UNCHANGED <<city, upstream, raw, enr, log, mode, since, rawrecs, parsed, i,
                   conn, fetched, new_records, enriched, runs, connId, hist,
                   enrichCalls, raw0, enr0, log0, errors0>>
    /\ UNCHANGED <<fvars, dvars, uvars, nvars>>

\* The retry of the chunk raises too: the exception leaves the batch loop.
RetryFail ==
    /\ pc = "retrying"
    /\ conn' = "unusable"
    /\ hist' = Append(hist, [k |-> i, conn |-> connId, ok |-> FALSE])
    /\ errors' = "batch write failed"
    /\ pc' = "finally"
    /\ UNCHANGED <<city, upstream, raw, enr, log, mode, since, rawrecs, parsed, i,
                   fetched, new_records, enriched, runs, connId, enrichCalls,
                   raw0, enr0, log0, errors0>>
    /\ UNCHANGED <<fvars, dvars, uvars, nvars>>

\* enriched = enrich_permits(conn) commits.
EnrichOk ==
    /\ pc = "enriching"
    /\ LET res == ENRICH_SQL(city, raw, enr, submarkets, crosswalk)
       IN  /\ ~res.raised
           /\ enr' = res.table
           /\ enriched' = res.rowcount
    /\ enrichCalls' = enrichCalls + 1
    /\ pc' = "finally"
    /\ UNCHANGED <<city, upstream, raw, log, mode, since, rawrecs, parsed, i, conn,
                   fetched, new_records, errors, runs, connId, hist,
                   raw0, enr0, log0, errors0>>
    /\ UNCHANGED <<fvars, dvars, uvars, nvars>>

\* enrich_permits raises: the statement is rolled back as a whole.
EnrichFail ==
    /\ pc = "enriching"
    /\ conn' = "unusable"
    /\ enrichCalls' = enrichCalls + 1
    /\ errors' = "enrichment failed"
    /\ pc' = "finally"
    /\ UNCHANGED <<city, upstream, raw, enr, log, mode, since, rawrecs, parsed, i,
                   fetched, new_records, enriched, runs, connId, hist,
                   raw0, enr0, log0, errors0>>
    /\ UNCHANGED <<fvars, dvars, uvars, nvars>>

AuditRow ==
    [run_type |-> mode, records_fetched |-> fetched, records_new |-> new_records,
     records_enriched |-> enriched, errors |-> errors]

\* The finally clause: INSERT INTO pipeline_log on conn, commit, close. On an
\* unusable connection the INSERT raises: City A lets the exception leave
\* run_pipeline, City B swallows it; neither writes the row.
Finally ==
    /\ pc = "finally"
    /\ log' = IF conn = "ok" THEN Append(log, AuditRow) ELSE log
    /\ pc' = IF errors = NoError THEN "done" ELSE "failed"
    /\ UNCHANGED <<city, upstream, raw, enr, mode, since, rawrecs, parsed, i, conn,
                   fetched, new_records, enriched, errors, runs, connId, hist,
                   enrichCalls, raw0, enr0, log0, errors0>>
    /\ UNCHANGED <<fvars, dvars, uvars, nvars>>

Next ==
    \/ \E m \in Modes : Start(m)
    \/ FetchOk
    \/ FetchFail
    \/ Parse
    \/ BatchOk
    \/ BatchFail
    \/ ReconnectOk
    \/ ReconnectFail
    \/ RetryFail
    \/ EnrichOk
    \/ EnrichFail
    \/ Finally

\* --------------------------------------------- Source Adapter, step by step
vars == <<ovars, fvars, dvars, uvars, nvars>>

FetchIdle ==
    /\ f_since = None /\ f_pc = "idle" /\ f_res = 1 /\ f_offset = 0
    /\ f_attempt = 0 /\ f_slept = <<>> /\ f_last = "none"
    /\ f_records = <<>> /\ f_part = <<>> /\ f_sqlOk = <<TRUE, TRUE>>
    /\ f_out = <<>>

\* What the first request of a resource is: the SQL endpoint in incremental
\* mode of City B, a page request otherwise.
FirstRequest(c, since_date) ==
    IF c = "B" /\ since_date # None THEN "sql" ELSE "page"

InitFetch ==
    /\ city \in Cities
    /\ upstream \in UpstreamsOver(city, SrcRecs(city))
    /\ RunIdle
    /\ UnitsIdle
    /\ ParseIdle
    /\ f_since \in {None} \cup Dates
    /\ f_pc = FirstRequest(city, f_since)
    /\ f_res = 1 /\ f_offset = 0
    /\ f_attempt = 0 /\ f_slept = <<>> /\ f_last = "none"
    /\ f_records = <<>> /\ f_part = <<>> /\ f_sqlOk = <<TRUE, TRUE>>
    /\ f_out = <<>>

\* The result set a page request pages through: City A sends the $where
\* clause with every page; fetch_ckan_page ignores its since_date parameter.
ServerResult(c, up, res, since_date) ==
    IF c = "A" THEN SocrataQuery(up[res], since_date) ELSE up[res]

\* The resource is read to its end: go on to the historical resource (City
\* B), or return (City B: deduplicated).
EndOfResource(got) ==
    IF city = "B" /\ f_res = 1
    THEN /\ f_res' = 2
         /\ f_pc' = FirstRequest(city, f_since)
         /\ f_records' = got
         /\ f_out' = f_out
    ELSE /\ f_res' = f_res
         /\ f_pc' = "returned"
         /\ f_records' = got
         /\ f_out' = IF city = "B" THEN Dedup(got, {}) ELSE got

\* One attempt of a page request answers: break out of the retry loop; the
\* page loop goes on to the next offset or ends at an empty or short page.
PageAttemptOk ==
    /\ f_pc = "page"
    /\ f_last' = "ok"
    /\ f_attempt' = 0 /\ f_slept' = <<>>
    /\ LET batch == PageAt(ServerResult(city, upstream, f_res, f_since), f_offset)
       IN  IF batch # <<>> /\ Len(batch) >= PageSize
           THEN /\ f_part' = f_part \o batch
                /\ f_offset' = f_offset + PageSize
                /\ UNCHANGED <<f_pc, f_res, f_records, f_out>>
           ELSE /\ f_part' = <<>>
                /\ f_offset' = 0
                /\ EndOfResource(f_records \o f_part \o batch)
    /\ UNCHANGED <<f_since, f_sqlOk>>
    /\ UNCHANGED <<ovars, dvars, uvars, nvars>>

\* One attempt of a page request ends in ReadTimeout or ConnectionError:
\* raise at the last attempt, else sleep 10 * (attempt + 1) and go round.
\* Faulty variant: `if attempt == 5: raise`, one more than the last loop value.
LastAttempt_OffByOne(attempt) == attempt = MaxAttempts

LastAttempt(attempt) == attempt = MaxAttempts - 1

Backoff(attempt) == BackoffSecs * (attempt + 1)

PageAttemptTransient ==
    /\ f_pc = "page"
    /\ f_last' = "transient"
    /\ IF LastAttempt(f_attempt)
       THEN /\ f_pc' = "raised"
            /\ UNCHANGED <<f_attempt, f_slept>>
       ELSE /\ f_slept' = Append(f_slept, Backoff(f_attempt))
            /\ f_attempt' = f_attempt + 1
            /\ UNCHANGED f_pc
    /\ UNCHANGED <<f_since, f_res, f_offset, f_records, f_part, f_sqlOk, f_out>>
    /\ UNCHANGED <<ovars, dvars, uvars, nvars>>

\* One attempt of a page request ends in another exception (raise_for_status,
\* a CKAN answer without success): it is not caught by the retry loop.
PageAttemptError ==
    /\ f_pc = "page"
    /\ f_last' = "error"
    /\ f_pc' = "raised"
    /\ UNCHANGED <<f_since, f_res, f_offset, f_attempt, f_slept, f_records,
                   f_part, f_sqlOk, f_out>>
    /\ UNCHANGED <<ovars, dvars, uvars, nvars>>

\* fetch_ckan_since: the SQL request answers with success.
SqlOk ==
    /\ f_pc = "sql"
    /\ f_last' = "ok"
    /\ EndOfResource(f_records \o CkanSql(upstream[f_res], f_since))
    /\ UNCHANGED <<f_since, f_offset, f_attempt, f_slept, f_part, f_sqlOk>>
    /\ UNCHANGED <<ovars, dvars, uvars, nvars>>

\* fetch_ckan_since: the SQL request fails in any way (one request, no
\* retry): fall back to fetch_ckan_all_pages(resource_id).
SqlFail ==
    /\ f_pc = "sql"
    /\ f_last' \in {"transient", "error"}
    /\ f_sqlOk' = [f_sqlOk EXCEPT ![f_res] = FALSE]
    /\ f_pc' = "page"
    /\ f_offset' = 0 /\ f_part' = <<>>
    /\ UNCHANGED <<f_since, f_res, f_attempt, f_slept, f_records, f_out>>
    /\ UNCHANGED <<ovars, dvars, uvars, nvars>>

NextFetch ==
    \/ PageAttemptOk
    \/ PageAttemptTransient
    \/ PageAttemptError
    \/ SqlOk
    \/ SqlFail

Init ==
    /\ city \in Cities
    /\ upstream \in UpstreamsOver(city, RunRecs(city))
    /\ RunIdle
    /\ FetchIdle
    /\ UnitsIdle
    /\ ParseIdle

Spec == Init /\ [][Next]_vars

\* The steps of a run that has started.
RunStep ==
    \/ FetchOk
    \/ FetchFail
    \/ Parse
    \/ BatchOk
    \/ BatchFail
    \/ ReconnectOk
    \/ ReconnectFail
    \/ RetryFail
    \/ EnrichOk
    \/ EnrichFail
    \/ Finally

\* The same, a run that has started going on to its next step: run_pipeline
\* is sequential code, its fetch comes to an end and every database call
\* returns or raises.
SpecLive == Init /\ [][Next]_vars /\ WF_vars(RunStep)

\* ------------------------------------------- the tables between the runs
\* The database as the batch commits, the enrichment statement, the loads of
\* the reference tables and the reads of the views leave it: one step is one
\* committed transaction or one read.

\* Source records with the columns the enrichment and the views read.
EnrichRecsA ==
    {At([Src("P1", 1, None, 50, "Issued") EXCEPT
            !.master = "M1", !.zip = "78701"], Q1),
     [Src("P2", 3, None, 50, "Issued") EXCEPT
         !.master = "M1", !.addr = "200 OAK AVE 78701"],
     At([Src("P1", 2, None, 50, "Final") EXCEPT
            !.master = "M1", !.addr = "200 OAK AVE 78701",
            !.work = "Remodel", !.name = "Oak Lofts"], Q2),
     Src("P2", 1, None, 4, "Issued")}

EnrichRecsB ==
    {At([Src("P1", 1, 1, 4500, "Open") EXCEPT
            !.addr = "200 OAK AVE 78701"], Q1),
     [Src("P2", 2, 1, 4500, "Open") EXCEPT !.addr = "200 OAK AVE 78701"],
     At([Src("P1", 2, 1, 7200, "Closed") EXCEPT
            !.addr = "300 ELM ST 78702", !.name = "Elm Lofts"], Q2),
     Src("P2", None, 3, 4500, "Open")}

EnrichRecs(c) == IF c = "A" THEN EnrichRecsA ELSE EnrichRecsB

\* Boundary data loaded out of band: S1 and S2 overlap in q1, S3 has no
\* geometry.
SubmarketRows ==
    {[submarket_id |-> "S1", submarket_name |-> "North Austin", geom |-> {"q1"}],
     [submarket_id |-> "S2", submarket_name |-> "West Austin", geom |-> {"q1", "q2"}],
     [submarket_id |-> "S3", submarket_name |-> "South Austin", geom |-> {}]}

\* Contents of the boundary table: not loaded, S1 and S3, all three.
SubmarketLoads ==
    {{}, {s \in SubmarketRows : s.submarket_id # "S2"}, SubmarketRows}

\* Contents of the crosswalk: as cmd_setup loads it, and hand-corrected (one
\* ZIP code moved to another submarket, one removed).
CrosswalkLoads ==
    {ZIP_CROSSWALK,
     {[zip_code |-> "78701", submarket_name |-> "Central Austin"]}}

InitTables ==
    /\ city \in Cities
    /\ upstream = <<<<>>, <<>>>>
    /\ RunIdle
    /\ FetchIdle
    /\ UnitsIdle
    /\ ParseIdle

\* The variables of a run, which no step between the runs changes.
runvars == <<city, upstream, log, pc, mode, since, rawrecs, parsed, i, conn,
             fetched, new_records, enriched, errors, runs, connId, hist,
             enrichCalls, raw0, enr0, log0, errors0>>

\* A batch of a run commits: the records are parsed and upserted in one
\* transaction (run_pipeline, the body of the batch loop).
StoreBatch ==
    \E recs \in SeqsUpTo(EnrichRecs(city), BatchCommitSize) :
        /\ recs # <<>>
        /\ raw' = upsert_raw(city, raw, ParseAll(city, recs)).table
        /\ stored' = (IF e_last = "store" THEN stored ELSE {})
                          \cup {recs[j] : j \in 1..Len(recs)}
        /\ e_last' = "store"
        /\ UNCHANGED <<enr, submarkets, crosswalk, projects, projects_prev,
                       deliveries, del_projects>>
        /\ UNCHANGED <<runvars, fvars, uvars, nvars>>

\* enrich_permits(conn), at the end of a run or as the command `enrich`:
\* ENRICH_SQL commits, or raises and leaves co_permits as it was.
EnrichCmd ==
    /\ LET res == ENRICH_SQL(city, raw, enr, submarkets, crosswalk)
       IN  /\ enr' = res.table
           /\ e_last' = IF res.raised THEN "enrich raised" ELSE "enrich ok"
    /\ UNCHANGED <<raw, stored, submarkets, crosswalk, projects, projects_prev,
                   deliveries, del_projects>>
    /\ UNCHANGED <<runvars, fvars, uvars, nvars>>

\* The boundary table is loaded or corrected (out of band).
LoadSubmarkets ==
    \E rows \in SubmarketLoads :
        /\ rows # submarkets
        /\ submarkets' = rows
        /\ e_last' = "load"
        /\ UNCHANGED <<raw, enr, stored, crosswalk, projects, projects_prev,
                       deliveries, del_projects>>
        /\ UNCHANGED <<runvars, fvars, uvars, nvars>>

\* The crosswalk is reloaded: TRUNCATE, then INSERT of the curated rows.
LoadCrosswalk ==
    \E rows \in CrosswalkLoads :
        /\ rows # crosswalk
        /\ crosswalk' = rows
        /\ e_last' = "load"
        /\ UNCHANGED <<raw, enr, stored, submarkets, projects, projects_prev,
                       deliveries, del_projects>>
        /\ UNCHANGED <<runvars, fvars, uvars, nvars>>

NextTables ==
    \/ StoreBatch
    \/ EnrichCmd
    \/ LoadSubmarkets
    \/ LoadCrosswalk

SpecTables == InitTables /\ [][NextTables]_vars

\* ------------------------------------------------------ reads of the views
\* The views as functions of the content of co_permits: the content is any
\* table with one row per permit_num, and a step is one read of a view.

\* A row of co_permits.
Enriched(num, master, issue_date, address, total_units, work_class, submarket) ==
    [permit_num |-> num, masterpermitnum |-> master, issue_date |-> issue_date,
     submitted_date |-> None, address |-> address, zip_code |-> NULL,
     point |-> NULL, geom |-> NULL, total_units |-> total_units,
     project_name |-> "Oak Flats", work_class |-> work_class,
     submarket_id |-> NULL, submarket_name |-> submarket,
     delivery_yyyyq |-> delivery_yyyyq(issue_date)]

EnrRowsA ==
    {Enriched("P1", "M1", 1, "100 MAIN ST", 50, "NEW", "North Austin"),
     Enriched("P2", "M1", 3, "100 MAIN ST", 50, "NEW", NULL),
     Enriched("P3", "M1", 3, "100 MAIN ST", 60, "NEW", "North Austin"),
     Enriched("P2", "M1", 2, "100 MAIN ST", 50, "REMODEL", NULL),
     Enriched("P2", NULL, 2, "100 MAIN ST", 20, "NEW", "North Austin"),
     Enriched("P3", NULL, 1, "200 OAK AVE 78701", 4, "NEW", "North Austin"),
     Enriched("P4", NULL, 1, "200 OAK AVE 78701", 5, "NEW", "North Austin"),
     Enriched("P4", NULL, 2, "200 OAK AVE 78701", 1000, "NEW", NULL),
     Enriched("P3", NULL, 2, "200 OAK AVE 78701", 1001, "NEW", NULL)}

EnrRowsB ==
    {Enriched("P1", NULL, 1, "100 MAIN ST", 5, "NEW", "North Austin"),
     Enriched("P2", NULL, 3, "100 MAIN ST", 5, "NEW", NULL),
     Enriched("P3", NULL, 3, "100 MAIN ST", 5, "NEW", "North Austin"),
     Enriched("P2", NULL, 2, "100 MAIN ST", 8, "NEW", "North Austin"),
     Enriched("P3", NULL, 1, "200 OAK AVE 78701", 4, "NEW", "North Austin"),
     Enriched("P4", NULL, 2, "200 OAK AVE 78701", 2000, "NEW", "North Austin"),
     Enriched("P4", NULL, 2, "200 OAK AVE 78701", 2001, "NEW", NULL)}

EnrRows(c) == IF c = "A" THEN EnrRowsA ELSE EnrRowsB

InitViews ==
    /\ city \in Cities
    /\ upstream = <<<<>>, <<>>>>
    /\ raw = {} /\ log = <<>>
    /\ enr \in {t \in SUBSET EnrRows(city) :
                   /\ Cardinality(t) <= MaxRows
                   /\ \A x, y \in t : x.permit_num = y.permit_num => x = y}
    /\ pc = "idle"
    /\ mode = "incremental" /\ since = None
    /\ rawrecs = <<>> /\ parsed = <<>> /\ i = 0
    /\ conn = "ok"
    /\ fetched = 0 /\ new_records = 0 /\ enriched = 0
    /\ errors = NoError
    /\ runs = 0
    /\ connId = 0 /\ hist = <<>> /\ enrichCalls = 0
    /\ raw0 = {} /\ enr0 = {} /\ log0 = <<>> /\ errors0 = NoError
    /\ submarkets = {} /\ crosswalk = ZIP_CROSSWALK
    /\ e_last = "setup" /\ stored = {}
    /\ projects = NoRead /\ projects_prev = NoRead
    /\ deliveries = NoRead /\ del_projects = NoRead
    /\ FetchIdle
    /\ UnitsIdle
    /\ ParseIdle

\* SELECT ... FROM co_projects: one evaluation of the view.
ReadProjects ==
    \E rows \in co_projects(city, enr) :
        /\ projects' = <<rows>>
        /\ projects_prev' = projects
        /\ UNCHANGED <<raw, enr, stored, submarkets, crosswalk, e_last,
                       deliveries, del_projects>>
        /\ UNCHANGED <<runvars, fvars, uvars, nvars>>

\* SELECT ... FROM submarket_deliveries: the view evaluates co_projects and
\* groups its rows.
ReadDeliveries ==
    \E rows \in co_projects(city, enr) :
        /\ deliveries' = <<submarket_deliveries(rows)>>
        /\ del_projects' = <<rows>>
        /\ UNCHANGED <<raw, enr, stored, submarkets, crosswalk, e_last,
                       projects, projects_prev>>
        /\ UNCHANGED <<runvars, fvars, uvars, nvars>>

NextViews ==
    \/ ReadProjects
    \/ ReadDeliveries

SpecViews == InitViews /\ [][NextViews]_vars

SpecFetch == InitFetch /\ [][NextFetch]_vars

\* The same, every request being answered or failing in the end: the code
\* is one sequential loop, each request has a timeout of 120 s.
SpecFetchLive == InitFetch /\ [][NextFetch]_vars /\ WF_vars(NextFetch)

\* The step-by-step adapter returns what fetch_all gives the orchestrator.
FetchAgrees ==
    f_pc = "returned" => f_out = fetch_all(city, upstream, f_since, f_sqlOk)

\* ------------------------------------------------------------ properties
\* The permits of parsed[1..n] whose chunk is committed: the batch loop has
\* committed every chunk below offset i.
Committed == SubSeq(parsed, 1, Min(i, Len(parsed)))

\* C1: for every normalized permit p and every Raw Store the runs can
\* produce, upserting p twice in a row leaves exactly one row with p's
\* permit number; the first call reports inserted exactly when the number
\* was absent before it, the second call never does.
C1_UpsertTwiceOneRow ==
    \A p \in Permits(city) :
        LET first == UPSERT_RAW_SQL(city, raw, p)
            second == UPSERT_RAW_SQL(city, first.table, p)
        IN  /\ Cardinality(RowsOf(second.table, p.permit_num)) = 1
            /\ first.inserted <=> (RowsOf(raw, p.permit_num) = {})
            /\ ~second.inserted

\* A store, written by a finished run, that holds one permit number with
\* values other than some p's (the update case) and lacks another (the
\* insert case).
C1_Witness ==
    /\ pc = "done"
    /\ raw # raw0
    /\ \E p \in Permits(city) : RowsOf(raw, p.permit_num) # {} /\ p \notin raw
    /\ \E q \in Permits(city) : RowsOf(raw, q.permit_num) = {}

\* The last record of the committed part of parsed with a given permit number.
LastCommitted(j) ==
    \A m \in (j + 1)..Len(Committed) : Committed[m].permit_num # Committed[j].permit_num

\* C2: in every state of every sequence of runs, successful or failed, the
\* Raw Store holds at most one row per permit number; a permit number once
\* stored is never removed; and the row of a re-ingested number carries the
\* status, the dates and the unit count of the record fetched last.
C2_OneRowNeverRemovedOverwritten ==
    /\ [](\A x \in raw : \A y \in raw : x.permit_num = y.permit_num => x = y)
    /\ [][\A x \in raw : RowsOf(raw', x.permit_num) # {}]_vars
    /\ [](\A j \in 1..Len(Committed) :
            LastCommitted(j) =>
               \E x \in raw :
                  /\ x.permit_num = Committed[j].permit_num
                  /\ x.permit_status = Committed[j].permit_status
                  /\ x.issue_date = Committed[j].issue_date
                  /\ x.submitted_date = Committed[j].submitted_date
                  /\ x.total_units = Committed[j].total_units)

\* A finished run that re-ingested a stored permit number with other values.
C2_Witness ==
    /\ pc = "done"
    /\ \E x \in raw0 : \E y \in raw : x.permit_num = y.permit_num /\ x # y

\* C3: every run of run_pipeline, ended done or failed, has appended exactly
\* one row to pipeline_log, and the row of a failed run carries the error
\* message.
C3_OneAuditRowPerRun ==
    pc \in {"done", "failed"} =>
        /\ Len(log) = Len(log0) + 1
        /\ SubSeq(log, 1, Len(log0)) = log0
        /\ pc = "failed" => log[Len(log)].errors # NoError

\* C4: when the batch loop fails for good at a chunk (its first attempt and
\* its retry both fail, or the reconnect fails), the Raw Store is the store
\* of the start of the run with the chunks before it upserted, and nothing
\* of that chunk or of a later one.
C4_FailedBatchKeepsEarlierOnly ==
    errors \in {"batch write failed", "could not connect"} =>
        raw = upsert_raw(city, raw0, SubSeq(parsed, 1, i)).table

\* A run that failed for good at its second chunk or later, after the
\* earlier chunks had changed the store, with a chunk still to come or not.
C4_Witness ==
    /\ pc = "failed"
    /\ errors = "batch write failed"
    /\ i >= BatchCommitSize
    /\ raw # raw0
    /\ \E p \in Permits(city) : RowsOf(raw, p.permit_num) = {} /\ RowsOf(raw0, p.permit_num) = {}

\* hist[j] is the first upsert_raw of its chunk and it raised.
FirstFail(j) == ~hist[j].ok /\ (j = 1 \/ hist[j - 1].k # hist[j].k)

\* hist[j] is the second upsert_raw of its chunk.
Retry(j) == j > 1 /\ hist[j - 1].k = hist[j].k

BatchErrors == {"batch write failed", "could not connect"}

\* C5 as stated: every chunk whose first write failed has been submitted a
\* second time, once, on a new connection, by the time the run ends.
C5_RetriedExactlyOnce ==
    pc \in {"done", "failed"} =>
        \A j \in 1..Len(hist) :
            FirstFail(j) =>
                /\ j < Len(hist)
                /\ hist[j + 1].k = hist[j].k
                /\ hist[j + 1].conn = hist[j].conn + 1
                /\ j + 2 <= Len(hist) => hist[j + 2].k # hist[j].k

\* C5, amended: after a failed first write of a chunk the orchestrator tries
\* to open a new connection; if that fails the run fails without a second
\* write; otherwise that same chunk is written once more on the new
\* connection and never a third time; a retry that succeeds is followed by
\* the next chunk, a retry that fails ends the batch loop and the run fails.
C5_RetryOnceOrFail ==
    \A j \in 1..Len(hist) :
        /\ j = 1 => hist[j].k = 0
        /\ j > 2 => ~(hist[j - 1].k = hist[j].k /\ hist[j - 2].k = hist[j].k)
        /\ Retry(j) => ~hist[j - 1].ok /\ hist[j].conn = hist[j - 1].conn + 1
        /\ (j > 1 /\ ~Retry(j)) =>
              hist[j - 1].ok /\ hist[j].k = hist[j - 1].k + BatchCommitSize
        /\ (FirstFail(j) /\ j = Len(hist)) =>
              \/ pc \in {"reconnecting", "retrying"} /\ i = hist[j].k
              \/ pc \in {"finally", "failed"} /\ errors = "could not connect"
        /\ (Retry(j) /\ ~hist[j].ok) =>
              /\ j = Len(hist)
              /\ pc \in {"finally", "failed"}
              /\ errors = "batch write failed"
        /\ (Retry(j) /\ hist[j].ok /\ j = Len(hist)) =>
              /\ errors \notin BatchErrors
              /\ i = hist[j].k + BatchCommitSize
              /\ i < Len(parsed) => pc = "storing"

\* A chunk whose first write failed, whose retry succeeded, followed by the
\* write of the next chunk.
C5_Witness ==
    \E j \in 1..Len(hist) :
        /\ FirstFail(j)
        /\ j + 2 <= Len(hist)
        /\ hist[j + 1].ok
        /\ hist[j + 2].k = hist[j].k + BatchCommitSize

\* C7: a run whose fetch failed has written nothing: the Raw Store and the
\* enriched table are those of the start of the run, no chunk was submitted,
\* enrichment was not called, and the run goes to its end as failed without
\* fetching again.
C7_FetchFailureStoresNothing ==
    errors = "fetch failed" =>
        /\ raw = raw0
        /\ enr = enr0
        /\ hist = <<>>
        /\ enrichCalls = 0
        /\ pc \in {"finally", "failed"}

\* A run over a store that held permits already, ended failed by its fetch.
C7_Witness ==
    /\ pc = "failed"
    /\ errors = "fetch failed"
    /\ raw0 # {}
    /\ enr0 # {}

\* C8: the since of an incremental run is the greatest issue date held in
\* the Raw Store when the run starts, None when the store is empty; the
\* since of a backfill is None.
C8_SinceIsStoreMaximum ==
    pc # "idle" =>
        /\ mode = "backfill" => since = None
        /\ mode = "incremental" =>
              IF raw0 = {} THEN since = None
              ELSE /\ \E x \in raw0 : x.issue_date = since
                   /\ \A y \in raw0 : y.issue_date <= since

\* An incremental run that follows a run whose enrichment did not cover the
\* whole store: its since is the store's maximum all the same.
C8_Witness ==
    /\ pc = "fetching"
    /\ mode = "incremental"
    /\ since # None
    /\ \E x \in raw0 : x.issue_date = since /\ \A e \in enr0 : e.issue_date < since

\* C10: enrichment is called at most once in a run, never before every
\* chunk of parsed is committed, and exactly once in every run whose fetch
\* and batch writes all succeeded, a run with nothing to store included.
C10_EnrichOnceAfterLastBatch ==
    /\ enrichCalls <= 1
    /\ pc = "enriching" => enrichCalls = 0
    /\ enrichCalls = 1 =>
          /\ i >= Len(parsed)
          /\ raw = upsert_raw(city, raw0, parsed).table
    /\ (pc \in {"finally", "done", "failed"}
           /\ errors \notin (BatchErrors \cup {"fetch failed"})) => enrichCalls = 1
    /\ pc = "done" => enrichCalls = 1

\* A run, ended done, whose fetch returned records of which none survived
\* parsing.
C10_Witness ==
    /\ pc = "done"
    /\ rawrecs # <<>>
    /\ parsed = <<>>
    /\ enrichCalls = 1

\* ------------------------------------------- properties of the Source Adapter
\* C6 as stated: a failure that is propagated after transient failures has
\* been retried 5 times.
C6_FiveRetriesBeforeRaise ==
    (f_pc = "raised" /\ f_last = "transient") => f_attempt = MaxAttempts

\* C6, amended: a page request is attempted at most 5 times in all (at most
\* 4 retries); the wait after the n-th failed attempt is 10 s x n; a
\* transient failure is propagated only when the 5th attempt has failed; an
\* attempt that answers never raises.
C6_FiveAttemptsBackoff ==
    /\ f_attempt \in 0..(MaxAttempts - 1)
    /\ f_slept = [n \in 1..f_attempt |-> 10 * n]
    /\ (f_pc = "raised" /\ f_last = "transient") =>
          f_attempt + 1 = 5 /\ Len(f_slept) = 4
    /\ f_last = "ok" => f_pc # "raised"

\* A request of the second page that failed five times, the waits between
\* the attempts being 10, 20, 30 and 40 s, and was then propagated.
C6_Witness ==
    /\ f_pc = "raised"
    /\ f_last = "transient"
    /\ f_offset > 0
    /\ f_slept = <<10, 20, 30, 40>>

\* The date of a source record: its issue date, else its submitted date.
RecDate(r) == IF r.issued # None THEN r.issued ELSE r.submitted

\* C9: every record fetch_all(since) returns for a since date is dated
\* strictly after since.
C9_ReturnedAfterSince ==
    (f_pc = "returned" /\ f_since # None) =>
        \A j \in 1..Len(f_out) : RecDate(f_out[j]) > f_since

\* The same, for the calls in which no SQL request of City B failed: the
\* remote filter alone keeps the promise.
C9_HoldsWithoutFallback ==
    (f_pc = "returned" /\ f_since # None /\ f_sqlOk = <<TRUE, TRUE>>) =>
        \A j \in 1..Len(f_out) : RecDate(f_out[j]) > f_since

\* ---------------------------------------------------------- enrichment
\* The permit's ZIP code the crosswalk is looked up with.
ZipOf(r) == IF r.zip_code # NULL THEN r.zip_code ELSE zip_from_address(r.address)

\* The polygons the permit's point lies in.
PolygonsAround(r) == {s \in submarkets : r.point # NULL /\ r.point \in s.geom}

\* The submarket names the fallback order allows for a permit, from the
\* boundary and crosswalk data as they are now.
ResolvedNames(r) ==
    IF PolygonsAround(r) # {}
    THEN {s.submarket_name : s \in PolygonsAround(r)}
    ELSE IF \E z \in crosswalk : z.zip_code = ZipOf(r)
    THEN {z.submarket_name : z \in {y \in crosswalk : y.zip_code = ZipOf(r)}}
    ELSE {NULL}

EnrichCalled == e_last \in {"enrich ok", "enrich raised"}

\* The fallback order holds of every permit of the Raw Store.
FallbackOrder ==
    \A r \in raw : \E e \in enr :
        e.permit_num = r.permit_num /\ e.submarket_name \in ResolvedNames(r)

\* C11: after enrich(), a permit with coordinates inside a submarket polygon
\* has that polygon's submarket, whatever the crosswalk says of its ZIP
\* code; else a permit whose ZIP code is in the crosswalk has the
\* crosswalk's submarket; else its submarket is null.
C11_FallbackOrder == EnrichCalled => FallbackOrder

\* The fallback order holds after every enrich() that returned.
C11_HoldsWhenEnrichReturns == e_last = "enrich ok" => FallbackOrder

\* An enrich() returned with the three cases in the table: a permit in a
\* polygon whose ZIP code maps elsewhere, and a permit without coordinates.
C11_ReturnedWitness ==
    /\ e_last = "enrich ok"
    /\ \E r \in raw : /\ PolygonsAround(r) # {}
                      /\ \E z \in crosswalk : z.zip_code = ZipOf(r)
    /\ \E r \in raw : r.point = NULL

OneRowPerRawPermit ==
    /\ \A r \in raw : Cardinality(RowsOf(enr, r.permit_num)) = 1
    /\ \A e \in enr : RowsOf(raw, e.permit_num) # {}

\* C12: after enrich() completes, co_permits holds exactly one row for every
\* row of co_permits_raw and no row of another permit, also when a permit's
\* point lies in more than one submarket polygon.
C12_OneEnrichedRowPerRawRow == EnrichCalled => OneRowPerRawPermit

\* One row per raw row after every enrich() that returned.
C12_HoldsWhenEnrichReturns == e_last = "enrich ok" => OneRowPerRawPermit

\* C13: after upserts followed by enrich(), co_permits equals the table
\* rebuilt from co_permits_raw and the reference data: every column copied
\* from the raw row has the raw row's current value.
C13_EqualsRebuild ==
    e_last = "enrich ok" =>
        /\ enr = ENRICH_SQL(city, raw, {}, submarkets, crosswalk).table
        /\ \A e \in enr : \A r \in RowsOf(raw, e.permit_num) :
               /\ e.address = r.address
               /\ e.project_name = r.project_name
               /\ e.work_class = r.work_class
               /\ e.issue_date = r.issue_date
               /\ e.total_units = r.total_units

\* The columns but address agree with the rebuilt table.
C13_RebuildButAddress ==
    e_last = "enrich ok" =>
        {[e EXCEPT !.address = NULL] : e \in enr}
        = {[e EXCEPT !.address = NULL] :
              e \in ENRICH_SQL(city, raw, {}, submarkets, crosswalk).table}

\* C14: a second enrich() with nothing changed in between leaves every
\* submarket and geometry as they are, and the enrich() after a change of
\* the boundary or crosswalk data gives every permit the submarket resolved
\* from the new data, null when nothing matches any more.
C14_IdempotentRecomputing ==
    EnrichCalled =>
        /\ ENRICH_SQL(city, raw, enr, submarkets, crosswalk).table = enr
        /\ \A e \in enr : \A r \in RowsOf(raw, e.permit_num) :
               e.submarket_name \in ResolvedNames(r) /\ e.geom = r.point

\* Idempotent and recomputing after every enrich() that returned.
C14_HoldsWhenEnrichReturns ==
    e_last = "enrich ok" =>
        /\ ENRICH_SQL(city, raw, enr, submarkets, crosswalk).table = enr
        /\ \A e \in enr : \A r \in RowsOf(raw, e.permit_num) :
               e.submarket_name \in ResolvedNames(r) /\ e.geom = r.point

\* ------------------------------------------------------------------- views
\* The rows of co_permits that pass the WHERE clause of co_projects.
Qualifies(e) ==
    /\ e.total_units >= 5
    /\ e.total_units <= (IF city = "A" THEN 1000 ELSE 2000)
    /\ city = "A" => e.work_class = "NEW"

\* Two rows of co_permits with one dedup key, x issued before y.
EarlierLater(x, y) ==
    /\ x \in enr /\ y \in enr
    /\ DedupKey(city, x) = DedupKey(city, y)
    /\ x.issue_date < y.issue_date

\* C15: of two rows of co_permits that share a dedup key and differ in the
\* issue date, co_projects shows the later one.
C15_LaterRowSurfaced ==
    projects # NoRead =>
        \A x, y \in enr : EarlierLater(x, y) =>
            /\ ProjectRow(x) \notin projects[1]
            /\ \E p \in projects[1] : /\ DedupKey(city, p) = DedupKey(city, y)
                                       /\ p.issue_date >= y.issue_date

\* C15, amended: of two rows that pass the filter of the view, share a dedup
\* key and differ in the issue date, co_projects never shows the earlier
\* one; the row it shows for the key has the latest issue date of the
\* key's rows that pass the filter.
C15_LaterQualifyingRowSurfaced ==
    projects # NoRead =>
        \A x, y \in enr : (EarlierLater(x, y) /\ Qualifies(x) /\ Qualifies(y)) =>
            /\ ProjectRow(x) \notin projects[1]
            /\ \E p \in projects[1] :
                  /\ DedupKey(city, p) = DedupKey(city, y)
                  /\ \A z \in enr : (Qualifies(z) /\ DedupKey(city, z) = DedupKey(city, y))
                                        => z.issue_date <= p.issue_date

\* A read of co_projects over two rows of one key and different dates that
\* both pass the filter.
C15_Witness ==
    /\ projects # NoRead
    /\ \E x, y \in enr : EarlierLater(x, y) /\ Qualifies(x) /\ Qualifies(y)

\* C16: two reads of co_projects over the same content of co_permits show
\* the same representative for every dedup key, also when rows of a key
\* share the latest issue date; the view has at most one row per key.
C16_SameRepresentativeEveryRead ==
    /\ (projects # NoRead /\ projects_prev # NoRead) => projects = projects_prev
    /\ projects # NoRead =>
           \A p, q \in projects[1] : DedupKey(city, p) = DedupKey(city, q) => p = q

\* C17: co_projects shows a City A project only with 5 to 1000 units, both
\* bounds included, 4 and 1001 excluded; City B: 5 to 2000.
C17_UnitRange ==
    projects # NoRead =>
        /\ \A p \in projects[1] :
               p.total_units >= 5 /\ p.total_units <= (IF city = "A" THEN 1000 ELSE 2000)
        /\ \A e \in enr : Qualifies(e) =>
               \E p \in projects[1] : DedupKey(city, p) = DedupKey(city, e)

\* A read over a table with a row at the upper bound of the range, which
\* the view shows, and a row outside the range.
C17_Witness ==
    /\ projects # NoRead
    /\ \E p \in projects[1] : p.total_units = (IF city = "A" THEN 1000 ELSE 2000)
    /\ \E e \in enr : e.total_units < 5 \/ e.total_units > (IF city = "A" THEN 1000 ELSE 2000)

RECURSIVE SumUnits(_)
SumUnits(rows) ==
    IF rows = {} THEN 0
    ELSE LET p == CHOOSE x \in rows : TRUE
         IN  p.total_units + SumUnits(rows \ {p})

\* The rows of co_projects a row of submarket_deliveries stands for.
GroupOf(g, projs) ==
    {p \in projs :
        /\ (IF p.submarket_name = NULL THEN "Unknown" ELSE p.submarket_name)
               = g.submarket_name
        /\ p.delivery_yyyyq = g.delivery_yyyyq}

\* C18: every row of submarket_deliveries has the number of the co_projects
\* rows of its submarket, year and quarter as project_count and the sum of
\* their units as total_units_delivered; a project without submarket counts
\* under 'Unknown', and every co_projects row is in exactly one group.
C18_CountsAndSums ==
    deliveries # NoRead =>
        /\ \A g \in deliveries[1] :
               /\ g.project_count = Cardinality(GroupOf(g, del_projects[1]))
               /\ g.total_units_delivered = SumUnits(GroupOf(g, del_projects[1]))
        /\ \A p \in del_projects[1] :
               Cardinality({g \in deliveries[1] : p \in GroupOf(g, del_projects[1])}) = 1

\* A read of submarket_deliveries with a group of two projects and projects
\* without submarket.
C18_Witness ==
    /\ deliveries # NoRead
    /\ \E g \in deliveries[1] : g.project_count = 2 /\ g.submarket_name # "Unknown"
    /\ \E g \in deliveries[1] : g.submarket_name = "Unknown"

\* ----------------------------------------------------- the parse of a run
\* The coordinate fields tried: both in order, swapped, state-plane values,
\* latitude alone, latitude with a longitude that is no number, a latitude
\* that is no number, longitude alone.
CoordPairs ==
    {<<Num(-977), Num(303)>>, <<Num(303), Num(-977)>>,
     <<Num(3100000), Num(10000000)>>,
     <<NoField, Num(303)>>, <<BadText, Num(303)>>,
     <<Num(-977), BadText>>, <<Num(-977), NoField>>}

\* The location fields tried, on records without coordinate fields.
LocationsA ==
    {Location(Num(-977), Num(303)), Location(Num(303), Num(-977)),
     Location(NoField, Num(303)), Location(BadText, Num(303))}

LocationsB ==
    {Location(Num(-977), Num(303)), Location(Num(303), Num(-977)),
     Location(Num(3100000), Num(10000000))}

\* A well-formed record, the same with each form of coordinates, and
\* records that lack one of the other fields.
ParseRecsOver(base, locations) ==
    {base}
    \cup {[base EXCEPT !.x = xy[1], !.y = xy[2]] : xy \in CoordPairs}
    \cup {[base EXCEPT !.loc = l] : l \in locations}
    \cup {[base EXCEPT !.num = ""], [base EXCEPT !.issued = None],
          [base EXCEPT !.issued = None, !.submitted = None],
          [base EXCEPT !.qty = 0], [base EXCEPT !.work = ""],
          [base EXCEPT !.status = ""]}

ParseRecs(c) ==
    IF c = "A" THEN ParseRecsOver(Src("P1", 1, None, 50, "Issued"), LocationsA)
    ELSE ParseRecsOver(Src("P1", 1, 2, 4500, "Open"), LocationsB)

InitParse ==
    /\ city \in Cities
    /\ upstream = <<<<>>, <<>>>>
    /\ RunIdle
    /\ FetchIdle
    /\ UnitsIdle
    /\ n_raw \in SeqsUpTo(ParseRecs(city), MaxParse)
    /\ n_i = 0
    /\ n_parsed = <<>>
    /\ n_out = <<>>

\* parse_record returns a permit: it is gathered.
ParseKeep ==
    /\ n_i < Len(n_raw)
    /\ parse_record(city, n_raw[n_i + 1]) # <<>>
    /\ n_parsed' = n_parsed \o parse_record(city, n_raw[n_i + 1])
    /\ n_out' = Append(n_out, parse_record(city, n_raw[n_i + 1]))
    /\ n_i' = n_i + 1
    /\ UNCHANGED n_raw
    /\ UNCHANGED <<ovars, fvars, dvars, uvars>>

\* parse_record returns None: the comprehension goes on to the next record.
ParseReject ==
    /\ n_i < Len(n_raw)
    /\ parse_record(city, n_raw[n_i + 1]) = <<>>
    /\ n_out' = Append(n_out, <<>>)
    /\ n_i' = n_i + 1
    /\ UNCHANGED <<n_raw, n_parsed>>
    /\ UNCHANGED <<ovars, fvars, dvars, uvars>>

NextParse ==
    \/ ParseKeep
    \/ ParseReject

SpecParse == InitParse /\ [][NextParse]_vars

\* ------------------------------------------------ the City B unit estimate
\* parse_record of City B on the area of one record: the estimate, then the
\* threshold that drops the record.
AreaValues ==
    {50 * k : k \in 0..MaxAreaStep}
        \cup {MAX_UNITS * AVG_UNIT_SF + 450 * k : k \in (0 - 2)..3}

InitUnits ==
    /\ city = "B"
    /\ upstream = <<<<>>, <<>>>>
    /\ RunIdle
    /\ FetchIdle
    /\ ParseIdle
    /\ u_area_sf \in AreaValues
    /\ u_total_units = NotEstimated
    /\ u_result = "parsing"

\* total_units = _estimate_units(area_sf)
EstimateUnits ==
    /\ u_total_units = NotEstimated
    /\ u_total_units' = estimate_units(u_area_sf)
    /\ UNCHANGED <<u_area_sf, u_result>>
    /\ UNCHANGED <<ovars, fvars, dvars, nvars>>

\* if total_units < MIN_UNITS: return None
ThresholdUnits ==
    /\ u_total_units # NotEstimated
    /\ u_result = "parsing"
    /\ u_result' = IF u_total_units < MIN_UNITS THEN "rejected" ELSE "kept"
    /\ UNCHANGED <<u_area_sf, u_total_units>>
    /\ UNCHANGED <<ovars, fvars, dvars, nvars>>

NextUnits ==
    \/ EstimateUnits
    \/ ThresholdUnits

SpecUnits == InitUnits /\ [][NextUnits]_vars

\* -------------------------------------------------------------- end to end
\* The records stored since the last enrichment that carry master permit m.
StoredOf(m) == {r \in stored : r.master = m}

\* Two or more fetched records share master permit m, with different issue
\* dates and unit counts in the range; they are records of different
\* permits, each fetched with one content only, all of new construction.
SharedMaster(m) ==
    /\ m # ""
    /\ \E r1, r2 \in StoredOf(m) : r1.issued # r2.issued
    /\ \A r \in StoredOf(m) : r.issued # None /\ r.qty >= 5 /\ r.qty <= 1000
    /\ \A r1 \in StoredOf(m) : \A r2 \in stored : r1.num = r2.num => r1 = r2
    /\ \A r \in StoredOf(m) : r.work = "New"

\* Every evaluation of co_projects has exactly one row of master permit m,
\* its issue date the latest of the records'.
OneProjectLatestDate(m) ==
    \A projs \in co_projects(city, enr) :
        /\ Cardinality({p \in projs : p.masterpermitnum = m}) = 1
        /\ \A p \in projs : p.masterpermitnum = m =>
               \A r \in StoredOf(m) : r.issued <= p.issue_date

\* C19: City A, end to end: when the fetched records include two or more
\* records of one master permit with different issue dates and a unit count
\* in the range, then after normalize, store, enrich and dedup co_projects
\* has exactly one row for that master permit, dated with the latest of the
\* records' issue dates.
C19_OneProjectPerMaster ==
    (city = "A" /\ EnrichCalled) =>
        \A m \in {r.master : r \in stored} : SharedMaster(m) => OneProjectLatestDate(m)

\* The same after every enrich() that returned.
C19_HoldsWhenEnrichReturns ==
    (city = "A" /\ e_last = "enrich ok") =>
        \A m \in {r.master : r \in stored} : SharedMaster(m) => OneProjectLatestDate(m)

\* An enrich() returned over two stored records of one master permit.
C19_ReturnedWitness ==
    /\ city = "A" /\ e_last = "enrich ok"
    /\ \E m \in {r.master : r \in stored} : SharedMaster(m)

\* ------------------------------------------------------------ unit estimate
CeilDiv(a, b) == (a + b - 1) \div b

\* n is the integer nearest to a / b, the even one of the two when a / b is
\* halfway between them.
NearestEven(n, a, b) ==
    LET d == IF b * n >= a THEN b * n - a ELSE a - b * n
    IN  2 * d < b \/ (2 * d = b /\ n % 2 = 0)

\* C20 as stated: for area_sf > 0 the estimate of City B is
\* min(2000, max(5, ceil(area_sf / 900))).
C20_CeilEstimate ==
    (u_total_units # NotEstimated /\ u_area_sf > 0) =>
        u_total_units = Min(2000, Max(5, CeilDiv(u_area_sf, 900)))

\* C20 amended: for area_sf > 0 the estimate of City B is
\* min(2000, max(5, round(area_sf / 900))), round being the nearest integer,
\* the even one at a half; area_sf = 4500 gives 5.
C20_RoundEstimate ==
    (u_total_units # NotEstimated /\ u_area_sf > 0) =>
        /\ \E n \in 0..(u_area_sf \div 900 + 1) :
               /\ NearestEven(n, u_area_sf, 900)
               /\ u_total_units = Min(2000, Max(5, n))
        /\ u_area_sf = 4500 => u_total_units = 5

\* An estimate was made of an area whose quotient by 900 has a fraction
\* below one half.
C20_Witness ==
    /\ u_total_units # NotEstimated
    /\ u_area_sf = 4600

\* C21: City B parse_record rejects every record whose area gives an
\* estimate below the floor of 5 units (fewer than 5 units of 900 sq ft,
\* however the quotient is rounded), and does not keep it with a unit count
\* raised to the floor or set to zero.
C21_BelowFloorRejected ==
    (u_result \in {"kept", "rejected"} /\ CeilDiv(u_area_sf, 900) < 5) =>
        u_result = "rejected"

\* What parse_record does do: a record without a positive area is rejected,
\* and every record kept has at least 5 units.
C21_NoAreaRejected ==
    /\ (u_result \in {"kept", "rejected"} /\ u_area_sf <= 0) => u_result = "rejected"
    /\ u_result = "kept" => u_total_units >= 5

\* ------------------------------------------------------------ normalization
\* The record has a permit number and a date.
Usable(r) == r.num # "" /\ (r.issued # None \/ r.submitted # None)

\* C22: parse_record rejects a record only when its permit number is
\* missing or blank or when it has neither an issue date nor a submitted
\* date: a record with a number and a date is kept whatever its other
\* fields are, and the parse goes on after a rejected record.
C22_RejectedOnlyWithoutNumberOrDate ==
    /\ Len(n_out) = n_i
    /\ \A j \in 1..n_i : Usable(n_raw[j]) <=> n_out[j] # <<>>

\* The same with the two other rejections taken out: City A, a latitude
\* without a longitude; City B, no positive area.
C22_HoldsButLatitudeAloneAndArea ==
    /\ Len(n_out) = n_i
    /\ \A j \in 1..n_i :
          (/\ Usable(n_raw[j])
           /\ city = "A" => ~(n_raw[j].y.kind = "num" /\ n_raw[j].x.kind = "absent")
           /\ city = "B" => n_raw[j].qty > 0)
             <=> n_out[j] # <<>>

\* The bounding box of the metro, in tenths of a degree: City B's is the
\* one of its parse_record, City A's a box of the same size around Austin.
MetroBox(c, lon, lat) ==
    IF c = "B" THEN -1000 < lon /\ lon < -970 /\ 280 < lat /\ lat < 305
    ELSE -1000 < lon /\ lon < -960 /\ 290 < lat /\ lat < 320

\* The candidate pair <<longitude, latitude>> of a record, as its field
\* names give it: of the coordinate fields, else of the location.
HasCandidate(r) ==
    \/ r.x.kind = "num" /\ r.y.kind = "num"
    \/ r.loc.present /\ r.loc.x.kind = "num" /\ r.loc.y.kind = "num"

Candidate(r) ==
    IF r.x.kind = "num" /\ r.y.kind = "num" THEN <<r.x.v, r.y.v>>
    ELSE <<r.loc.x.v, r.loc.y.v>>

\* C23: every normalized permit has latitude and longitude both absent or
\* both present and inside the bounding box of the metro; a candidate pair
\* inside the box is stored as it is, one that is inside only when swapped
\* is stored swapped, one outside in both orders is dropped.
C23_CoordinatesInsideBoxOrAbsent ==
    \A j \in 1..Len(n_out) :
        n_out[j] # <<>> =>
            LET p == n_out[j][1]
                r == n_raw[j]
                a == Candidate(r)[1]
                b == Candidate(r)[2]
            IN  /\ \/ p.latitude = None /\ p.longitude = None
                   \/ /\ p.latitude # None /\ p.longitude # None
                      /\ MetroBox(city, p.longitude, p.latitude)
                /\ HasCandidate(r) =>
                      IF MetroBox(city, a, b)
                      THEN p.longitude = a /\ p.latitude = b
                      ELSE IF MetroBox(city, b, a)
                      THEN p.longitude = b /\ p.latitude = a
                      ELSE p.latitude = None /\ p.longitude = None

\* The same for the LOCATION field of City B alone, whose two branches
\* assign the pair the right way round.
C23_HoldsForLocationOfCityB ==
    \A j \in 1..Len(n_out) :
        (city = "B" /\ n_out[j] # <<>> /\ n_raw[j].x.kind = "absent"
            /\ n_raw[j].y.kind = "absent") =>
            LET p == n_out[j][1]
                a == n_raw[j].loc.x.v
                b == n_raw[j].loc.y.v
            IN  /\ \/ p.latitude = None /\ p.longitude = None
                   \/ MetroBox(city, p.longitude, p.latitude)
                /\ n_raw[j].loc.present =>
                      IF MetroBox(city, a, b)
                      THEN p.longitude = a /\ p.latitude = b
                      ELSE IF MetroBox(city, b, a)
                      THEN p.longitude = b /\ p.latitude = a
                      ELSE p.latitude = None /\ p.longitude = None

\* ------------------------------------------------- the two resources of B
\* The permit numbers a sequence of source records holds, blank ones aside.
NumsOf(records) == {records[j].num : j \in 1..Len(records)} \ {""}

\* The first record of a sequence with a permit number.
FirstWith(records, n) ==
    records[CHOOSE j \in 1..Len(records) :
                /\ records[j].num = n
                /\ \A k \in 1..(j - 1) : records[k].num # n]

\* f_out has no two records of one permit number, none with a blank
\* number, one record of each number of current or historical, and for a
\* number of current that one is the first of current with it.
MergedOnce(current, historical) ==
    /\ \A j, k \in 1..Len(f_out) : f_out[j].num = f_out[k].num => j = k
    /\ \A j \in 1..Len(f_out) : f_out[j].num # ""
    /\ \A n \in NumsOf(current) \cup NumsOf(historical) :
          /\ Cardinality({j \in 1..Len(f_out) : f_out[j].num = n}) = 1
          /\ \A j \in 1..Len(f_out) :
                f_out[j].num = n =>
                    f_out[j] = IF n \in NumsOf(current) THEN FirstWith(current, n)
                               ELSE FirstWith(historical, n)

\* C24 as stated: fetch_all of City B reads both resources in backfill and
\* in incremental mode; no two records it returns share a permit number,
\* every non-blank number present in either resource is returned exactly
\* once, and for a number present in both the record of the current
\* resource is the one returned.
C24_EveryNumberOfTheResourcesOnce ==
    (city = "B" /\ f_pc = "returned") =>
        /\ f_res = 2
        /\ MergedOnce(upstream[1], upstream[2])

\* What the query of a resource gives: the resource in a backfill and when
\* the SQL request failed, its records issued after since otherwise.
QueryResult(res) ==
    IF f_since = None \/ ~f_sqlOk[res] THEN upstream[res]
    ELSE SelectSeq(upstream[res], LAMBDA r : r.issued # None /\ r.issued > f_since)

\* C24 amended: fetch_all of City B queries both resources in backfill and
\* in incremental mode; no two records it returns share a permit number,
\* every non-blank number present in the result of either query is
\* returned exactly once, and for a number present in both results the
\* record of the current resource's result is the one returned.  The
\* result of a query is the whole resource in a backfill and when the SQL
\* request of an incremental fetch failed, and the records of the resource
\* issued after since otherwise.
C24_EveryNumberOfTheResultsOnce ==
    (city = "B" /\ f_pc = "returned") =>
        /\ f_res = 2
        /\ f_records = QueryResult(1) \o QueryResult(2)
        /\ MergedOnce(QueryResult(1), QueryResult(2))

\* An incremental fetch returned, the results of its two queries holding
\* different records of one permit number.
C24_Witness ==
    /\ city = "B" /\ f_pc = "returned" /\ f_since # None
    /\ \E n \in NumsOf(QueryResult(1)) \cap NumsOf(QueryResult(2)) :
          FirstWith(QueryResult(1), n) # FirstWith(QueryResult(2), n)

\* ------------------------------------------------------------- pagination
\* While a resource is paged, the pages requested so far were those at the
\* offsets 0, PageSize, ... below f_offset, each of them full, and f_part
\* holds their records in upstream order; no page is requested past the end
\* of the result set.
PagedInOrder ==
    f_pc = "page" =>
        LET result == ServerResult(city, upstream, f_res, f_since)
        IN  /\ f_offset % PageSize = 0
            /\ f_offset <= Len(result)
            /\ f_part = SubSeq(result, 1, f_offset)

\* What the page loop has gathered when fetch_all returns: every record of
\* each paged result set, once, in upstream order.
AllRecordsOnce ==
    f_pc = "returned" =>
        IF city = "A" THEN f_out = ServerResult(city, upstream, 1, f_since)
        ELSE f_records = QueryResult(1) \o QueryResult(2)

NumsIn(table) == {x.permit_num : x \in table}

\* C26: when the enrichment step of a run fails, co_permits is as it was
\* before the step, every batch committed to the Raw Store stays committed,
\* and the run ends failed with one audit row that carries the error text
\* and the fetched and new counters of the store phase.
C26_EnrichFailureKeptAndAudited ==
    (pc = "failed" /\ errors = "enrichment failed") =>
        /\ enr = enr0
        /\ raw = upsert_raw(city, raw0, parsed).table
        /\ Len(log) = Len(log0) + 1
        /\ log[Len(log)].errors = "enrichment failed"
        /\ log[Len(log)].records_fetched = Len(parsed)
        /\ log[Len(log)].records_new = Cardinality(NumsIn(raw) \ NumsIn(raw0))

\* The same without the audit row: the tables, and the counters the run
\* holds when it ends.
C26_HoldsButAuditRow ==
    (pc = "failed" /\ errors = "enrichment failed") =>
        /\ enr = enr0
        /\ raw = upsert_raw(city, raw0, parsed).table
        /\ fetched = Len(parsed)
        /\ new_records = Cardinality(NumsIn(raw) \ NumsIn(raw0))

\* ------------------------------------------------------- order of a run
\* The place of a position of run_pipeline in the order idle, fetching,
\* parsing, storing, enriching, done or failed (the finally clause is the
\* way into done or failed).
Stage(p) ==
    CASE p = "idle" -> 0
      [] p = "fetching" -> 1
      [] p = "parsing" -> 2
      [] p \in {"storing", "reconnecting", "retrying"} -> 3
      [] p = "enriching" -> 4
      [] p = "finally" -> 5
      [] OTHER -> 6

\* A step stays in its stage or moves to a later one; the next run starts,
\* at fetching, from idle, done or failed only.
StepInOrder ==
    IF pc' = "fetching" /\ pc # "fetching"
    THEN pc \in {"idle", "done", "failed"}
    ELSE Stage(pc') >= Stage(pc)

\* Nothing is stored while the fetch or the parse is under way; in the
\* batch loop the store holds the batches below the current one and no
\* other; enrichment is not reached before every batch is committed.
StoredInOrder ==
    /\ pc \in {"fetching", "parsing"} => raw = raw0 /\ hist = <<>>
    /\ pc \in {"storing", "reconnecting", "retrying"} =>
          /\ i < Len(parsed)
          /\ i % BatchCommitSize = 0
          /\ raw = upsert_raw(city, raw0, SubSeq(parsed, 1, i)).table
    /\ (pc = "enriching" \/ enrichCalls > 0) =>
          /\ i >= Len(parsed)
          /\ raw = upsert_raw(city, raw0, parsed).table
    /\ \A j \in 2..Len(hist) :
          hist[j].k # hist[j - 1].k =>
              hist[j - 1].ok /\ hist[j].k = hist[j - 1].k + BatchCommitSize

\* C27: a run goes through idle, fetching, parsing, storing, enriching and
\* done or failed in that order; no record is stored before the fetch has
\* returned, a batch is not started before the one before it is committed,
\* enrichment does not start before the last batch is committed, and every
\* run that has started comes to done or failed.
C27_StatesInOrder ==
    /\ [][StepInOrder]_vars
    /\ []StoredInOrder
    /\ [](pc = "fetching" => <>(pc \in {"done", "failed"}))

\* A run that stored two batches or more, enriched and ended done.
C27_Witness ==
    /\ pc = "done"
    /\ enrichCalls = 1
    /\ \E j \in 2..Len(hist) : hist[j].k > 0 /\ hist[j].ok

\* ------------------------------------------------- resuming a failed run
\* The source records the upstream holds, the current resource first.
UpstreamRecs == upstream[1] \o upstream[2]

\* Every upstream record parse_record keeps has its permit number stored
\* (City B: every such record that is the first of its permit number, the
\* others being dropped by the fetch).
EveryParseableStored ==
    \A j \in 1..Len(UpstreamRecs) :
        (/\ parse_record(city, UpstreamRecs[j]) # <<>>
         /\ city = "B" => \A k \in 1..(j - 1) : UpstreamRecs[k].num # UpstreamRecs[j].num)
            => RowsOf(raw, UpstreamRecs[j].num) # {}

\* C28: when a run has failed for good at a batch and the next run, an
\* incremental one over the same upstream data, ends done, the Raw Store
\* holds every parseable upstream record: none of the records of the
\* batches the failed run left unstored is skipped for being dated on or
\* before the watermark of the batches it did store.
C28_FailedBatchesStoredByNextRun ==
    (pc = "done" /\ mode = "incremental" /\ errors0 \in BatchErrors) =>
        EveryParseableStored

\* The same after a backfill that ends done, whatever came before it.
C28_HoldsAfterBackfill ==
    (pc = "done" /\ mode = "backfill") => EveryParseableStored

\* ------------------------------------------------------------ run counters
\* C29: the audit row of a run that ends done has in records_new the
\* number of permit numbers the Raw Store holds after the run and did not
\* hold before it, also when the fetched records hold a number more than
\* once and when a batch was written at its retry, and in records_fetched
\* the number of fetched records parse_record kept.
C29_CountersOfDoneRun ==
    pc = "done" =>
        /\ Len(log) = Len(log0) + 1
        /\ log[Len(log)].records_new = Cardinality(NumsIn(raw) \ NumsIn(raw0))
        /\ log[Len(log)].records_fetched =
              Cardinality({j \in 1..Len(rawrecs) : parse_record(city, rawrecs[j]) # <<>>})

\* A run ended done that fetched two records of one permit number, new to
\* the store, and wrote a batch at its retry.
C29_Witness ==
    /\ pc = "done"
    /\ \E j \in 1..Len(hist) : ~hist[j].ok
    /\ Len(parsed) >= 2
    /\ parsed[1].permit_num = parsed[2].permit_num
    /\ RowsOf(raw0, parsed[1].permit_num) = {}
    /\ log[Len(log)].records_new = 1

\* --------------------------------------------------- issue date of the rows
\* C30: every row of the Raw Store has an issue date (City A's parse rejects
\* a record without one, City B's stores the submitted date in its place);
\* so the watermark is defined whenever the store holds a row, and a run
\* that ends done leaves every stored permit with its enriched row.
C30_StoredRowsHaveIssueDate ==
    /\ \A x \in raw : x.issue_date # None
    /\ raw # {} => last_ingested_date(raw) # None
    /\ pc = "done" => NumsIn(raw) \subseteq NumsIn(enr)

\* City B ended a run having stored, and enriched, a permit whose record
\* had no issue date: its submitted date is its issue date.
C30_Witness ==
    /\ city = "B"
    /\ pc = "done"
    /\ \E j \in 1..Len(UpstreamRecs) :
          /\ UpstreamRecs[j].issued = None
          /\ \E x \in RowsOf(raw, UpstreamRecs[j].num) :
                /\ x.issue_date = UpstreamRecs[j].submitted
                /\ x.submitted_date = UpstreamRecs[j].submitted
                /\ RowsOf(enr, x.permit_num) # {}

=============================================================================
